---- MODULE Spec2Model ----
(***************************************************************************)
(* A model of sagerender: the PipelineBuilder (builder/pipeline.py), the   *)
(* step models and their discriminator (builder/step.py) and the           *)
(* PipelineBlueprint (builder/blueprint.py).                               *)
(*                                                                         *)
(* Python values are tagged records ([t |-> "str", v |-> ...]); Python     *)
(* strings that the code inspects (startswith, split, replace, in) are     *)
(* sequences of one-character strings; Python dicts are sequences of       *)
(* <<key, value>> pairs in insertion order; a raised exception is the      *)
(* record [t |-> "raise", exc |-> <class name>].                           *)
(***************************************************************************)
EXTENDS Integers, Sequences, FiniteSets, TLC

VARIABLES
    parameters,          \* PipelineBuilder.parameters     (dict name -> Parameter)
    property_files,      \* PipelineBuilder.property_files (dict name -> PropertyFile)
    steps,               \* PipelineBuilder.steps          (dict name -> built step)
    pipeline,            \* PipelineBuilder.pipeline       (None or the built Pipeline)
    role_arn,            \* PipelineBuilder.role_arn
    sagemaker_session,   \* PipelineBuilder.sagemaker_session
    security_group_ids,  \* PipelineBuilder.security_group_ids
    subnets,             \* PipelineBuilder.subnets
    service_calls,       \* calls that reached the pipeline service (definition/upsert/start)
    input,               \* the last call made: operation and arguments
    output,              \* its outcome: the returned value or the raised exception
    calls,               \* the number of add_step calls made so far
    config,              \* PipelineBlueprint._config, the root document
    tags,                \* PipelineBuilder.tags
    added,               \* the add_step calls that stored a step, in order
    context,             \* PipelineBlueprint.context (dict key -> value)
    instance,            \* PipelineBlueprint.instance: 0 is None, else the object made
    pc,                  \* the statement of the running command that runs next
    trace,               \* the calls made on the collaborators, in order
    locator              \* a ResourceLocatorMixin object and the entry points of its group

tables == <<parameters, property_files, steps>>
settings == <<role_arn, sagemaker_session, security_group_ids, subnets>>
vars == <<parameters, property_files, steps, pipeline, role_arn, sagemaker_session,
          security_group_ids, subnets, service_calls, input, output, calls, config,
          tags, added, context, instance, pc, trace, locator>>
blueprint == <<config, context, instance>>
command == <<pc, trace, locator>>

----------------------------------------------------------------------------
(* Python values *)

PyNone == [t |-> "none"]
PyStr(s) == [t |-> "str", v |-> s]
PyInt(n) == [t |-> "int", v |-> n]
PyList(xs) == [t |-> "list", v |-> xs]
PyDict(items) == [t |-> "dict", v |-> items]
Raise(e) == [t |-> "raise", exc |-> e]
Raised(x) == x.t = "raise"
Pending == [t |-> "pending"]

----------------------------------------------------------------------------
(* Python dict, in insertion order *)

DictKeys(d) == {d[i][1] : i \in DOMAIN d}
DictHas(d, k) == \E i \in DOMAIN d : d[i][1] = k
DictIndex(d, k) == CHOOSE i \in DOMAIN d : d[i][1] = k
DictGet(d, k) == d[DictIndex(d, k)][2]
DictSet(d, k, v) ==
    IF DictHas(d, k) THEN [d EXCEPT ![DictIndex(d, k)] = <<k, v>>]
    ELSE Append(d, <<k, v>>)
DictPop(d, k) ==
    LET i == DictIndex(d, k) IN SubSeq(d, 1, i - 1) \o SubSeq(d, i + 1, Len(d))
DictValues(d) == [i \in DOMAIN d |-> d[i][2]]
DictKeyList(d) == [i \in DOMAIN d |-> d[i][1]]

----------------------------------------------------------------------------
(* Python str methods, on sequences of characters *)

StartsWith(s, p) == Len(s) >= Len(p) /\ SubSeq(s, 1, Len(p)) = p

\* str.find from position i, 1-based; 0 when sub does not occur
RECURSIVE FindFrom(_, _, _)
FindFrom(s, sub, i) ==
    IF i + Len(sub) - 1 > Len(s) THEN 0
    ELSE IF SubSeq(s, i, i + Len(sub) - 1) = sub THEN i
    ELSE FindFrom(s, sub, i + 1)

Find(s, sub) == FindFrom(s, sub, 1)

Contains(s, sub) == Find(s, sub) # 0

\* str.split(sep) for a non-empty separator
RECURSIVE Split(_, _)
Split(s, sep) ==
    LET i == Find(s, sep)
    IN IF i = 0 THEN <<s>>
       ELSE <<SubSeq(s, 1, i - 1)>> \o Split(SubSeq(s, i + Len(sep), Len(s)), sep)

\* str.replace(old, new): every non-overlapping occurrence, left to right; the
\* inserted text is not scanned again. An empty old matches before every
\* character and at the end.
RECURSIVE Replace(_, _, _)
Replace(s, old, new) ==
    IF old = <<>>
    THEN IF s = <<>> THEN new
         ELSE new \o <<Head(s)>> \o Replace(Tail(s), old, new)
    ELSE LET i == Find(s, old)
         IN IF i = 0 THEN s
            ELSE SubSeq(s, 1, i - 1) \o new
                 \o Replace(SubSeq(s, i + Len(old), Len(s)), old, new)

----------------------------------------------------------------------------
(* sagerender/defaults.py *)

EXECUTION_VARIABLE_PREFIX == <<"e", "x", "e", "c", ":">>
FACTORY_ENUM == "factory_enum"
FACTORY_FUNCTION == "factory_function"
PARAMETER_PREFIX == <<"p", "a", "r", "a", "m", ":">>
PROPERTY_FILE_PREFIX == <<"p", "r", "o", "p", "e", "r", "t", "y", "F", "i", "l", "e", ":">>
PROPERTIES_IDENTIFIER == <<".", "p", "r", "o", "p", "e", "r", "t", "i", "e", "s", ".">>
RESERVED_STEP_KEYWORDS == {"role", "sagemaker_session", "security_group_ids", "subnets"}

EXECUTION_VARIABLES_CLASS_PATH ==
    <<"s", "a", "g", "e", "m", "a", "k", "e", "r", ".", "w", "o", "r", "k", "f", "l",
      "o", "w", ".", "e", "x", "e", "c", "u", "t", "i", "o", "n", "_", "v", "a", "r",
      "i", "a", "b", "l", "e", "s", ":", "E", "x", "e", "c", "u", "t", "i", "o", "n",
      "V", "a", "r", "i", "a", "b", "l", "e", "s">>

----------------------------------------------------------------------------
(* sagerender/builder/step.py: the class paths the step models name *)

DEFAULT_AUTOML ==
    <<"s", "a", "g", "e", "m", "a", "k", "e", "r", ".", "a", "u", "t", "o", "m",
      "l", ".", "a", "u", "t", "o", "m", "l", ":", "A", "u", "t", "o", "M", "L">>
DEFAULT_LAMBDA_FUNC ==
    <<"s", "a", "g", "e", "m", "a", "k", "e", "r", ".", "l", "a", "m", "b", "d",
      "a", "_", "h", "e", "l", "p", "e", "r", ":", "L", "a", "m", "b", "d", "a">>
DEFAULT_MODEL ==
    <<"s", "a", "g", "e", "m", "a", "k", "e", "r", ".", "m", "o", "d", "e", "l",
      ":", "M", "o", "d", "e", "l">>
DEFAULT_PROCESSOR ==
    <<"s", "a", "g", "e", "m", "a", "k", "e", "r", ".", "p", "r", "o", "c", "e",
      "s", "s", "i", "n", "g", ":", "P", "r", "o", "c", "e", "s", "s", "o", "r">>
DEFAULT_ESTIMATOR ==
    <<"s", "a", "g", "e", "m", "a", "k", "e", "r", ".", "e", "s", "t", "i", "m",
      "a", "t", "o", "r", ":", "E", "s", "t", "i", "m", "a", "t", "o", "r">>
DEFAULT_TRANSFORMER ==
    <<"s", "a", "g", "e", "m", "a", "k", "e", "r", ".", "t", "r", "a", "n", "s",
      "f", "o", "r", "m", "e", "r", ":", "T", "r", "a", "n", "s", "f", "o", "r",
      "m", "e", "r">>
DEFAULT_TUNER ==
    <<"s", "a", "g", "e", "m", "a", "k", "e", "r", ".", "t", "u", "n", "e", "r",
      ":", "H", "y", "p", "e", "r", "p", "a", "r", "a", "m", "e", "t", "e", "r",
      "T", "u", "n", "e", "r">>
CLARIFY_CHECK_STEP ==
    <<"s", "a", "g", "e", "m", "a", "k", "e", "r", ".", "w", "o", "r", "k", "f",
      "l", "o", "w", ".", "c", "l", "a", "r", "i", "f", "y", "_", "c", "h", "e",
      "c", "k", "_", "s", "t", "e", "p", ":", "C", "l", "a", "r", "i", "f", "y",
      "C", "h", "e", "c", "k", "S", "t", "e", "p">>
QUALITY_CHECK_STEP ==
    <<"s", "a", "g", "e", "m", "a", "k", "e", "r", ".", "w", "o", "r", "k", "f",
      "l", "o", "w", ".", "q", "u", "a", "l", "i", "t", "y", "_", "c", "h", "e",
      "c", "k", "_", "s", "t", "e", "p", ":", "Q", "u", "a", "l", "i", "t", "y",
      "C", "h", "e", "c", "k", "S", "t", "e", "p">>

----------------------------------------------------------------------------
(* The importable world: what import_module and getattr find.  The classes   *)
(* the step models name by default, ExecutionVariables with its members, and *)
(* the parameter class ParameterString, and a module m with a constructor J  *)
(* (such as sagemaker.workflow.functions:Join) and an enum class E with the  *)
(* member X.                                                                 *)

PIPELINE_NAME == <<"P", "I", "P", "E", "L", "I", "N", "E", "_", "N", "A", "M", "E">>
PARAMETER_STRING ==
    <<"s", "a", "g", "e", "m", "a", "k", "e", "r", ".", "w", "o", "r", "k", "f",
      "l", "o", "w", ".", "p", "a", "r", "a", "m", "e", "t", "e", "r", "s", ":",
      "P", "a", "r", "a", "m", "e", "t", "e", "r", "S", "t", "r", "i", "n", "g">>

ImportableObjects ==
    {EXECUTION_VARIABLES_CLASS_PATH, <<"m", ":", "J">>, <<"m", ":", "E">>,
     DEFAULT_AUTOML, DEFAULT_LAMBDA_FUNC, DEFAULT_MODEL, DEFAULT_PROCESSOR,
     DEFAULT_ESTIMATOR, DEFAULT_TRANSFORMER, DEFAULT_TUNER,
     CLARIFY_CHECK_STEP, QUALITY_CHECK_STEP, PARAMETER_STRING}
ImportTable == {Split(p, <<":">>) : p \in ImportableObjects}
ModuleNames == {e[1] : e \in ImportTable}
ModuleAttributes(package) == {e[2] : e \in {x \in ImportTable : x[1] = package}}
ObjectAttributes(obj) ==
    IF obj.package \o <<":">> \o obj.name = EXECUTION_VARIABLES_CLASS_PATH
    THEN {PIPELINE_NAME}
    ELSE IF obj.package = <<"m">> /\ obj.name = <<"E">> THEN {<<"X">>}
    ELSE {}

----------------------------------------------------------------------------
(* sagerender/utilities/common.py *)

\* package, name = package_name.split(":"); getattr(import_module(package), name)
resolve_package_name(package_name) ==
    LET parts == Split(package_name, <<":">>)
    IN IF Len(parts) # 2 THEN Raise("ValueError")
       ELSE IF parts[1] \notin ModuleNames THEN Raise("ModuleNotFoundError")
       ELSE IF parts[2] \notin ModuleAttributes(parts[1]) THEN Raise("AttributeError")
       ELSE [t |-> "object", package |-> parts[1], name |-> parts[2]]

\* str.rsplit(sep=":", maxsplit=1): the index of the last ":" or 0
LastColon(s) ==
    LET at == {i \in 1..Len(s) : s[i] = ":"}
    IN IF at = {} THEN 0 ELSE CHOOSE i \in at : \A j \in at : j <= i

\* package_name, enum = enum_package_name.rsplit(sep=":", maxsplit=1)
\* getattr(resolve_package_name(package_name), enum)
resolve_enum_name(enum_package_name) ==
    LET c == LastColon(enum_package_name)
        obj == resolve_package_name(SubSeq(enum_package_name, 1, c - 1))
        enum == SubSeq(enum_package_name, c + 1, Len(enum_package_name))
    IN IF c = 0 THEN Raise("ValueError")
       ELSE IF Raised(obj) THEN obj
       ELSE IF enum \notin ObjectAttributes(obj) THEN Raise("AttributeError")
       ELSE [t |-> "enum", package |-> obj.package, name |-> obj.name, member |-> enum]

----------------------------------------------------------------------------
(* Python's grammar of names, as eval() applies it to an attribute chain *)

IdentifierStart ==
    {"a", "b", "c", "d", "e", "f", "g", "h", "i", "j", "k", "l", "m", "n", "o", "p",
     "q", "r", "s", "t", "u", "v", "w", "x", "y", "z", "A", "B", "C", "D", "E", "F",
     "G", "H", "I", "J", "K", "L", "M", "N", "O", "P", "Q", "R", "S", "T", "U", "V",
     "W", "X", "Y", "Z", "_"}

Digits ==
    {"0", "1", "2", "3", "4", "5", "6", "7", "8", "9"}

\* keyword.kwlist
PythonKeywords ==
    {<<"F", "a", "l", "s", "e">>, <<"N", "o", "n", "e">>, <<"T", "r", "u", "e">>,
     <<"a", "n", "d">>, <<"a", "s">>, <<"a", "s", "s", "e", "r", "t">>,
     <<"a", "s", "y", "n", "c">>, <<"a", "w", "a", "i", "t">>,
     <<"b", "r", "e", "a", "k">>, <<"c", "l", "a", "s", "s">>,
     <<"c", "o", "n", "t", "i", "n", "u", "e">>, <<"d", "e", "f">>, <<"d", "e", "l">>,
     <<"e", "l", "i", "f">>, <<"e", "l", "s", "e">>, <<"e", "x", "c", "e", "p", "t">>,
     <<"f", "i", "n", "a", "l", "l", "y">>, <<"f", "o", "r">>, <<"f", "r", "o", "m">>,
     <<"g", "l", "o", "b", "a", "l">>, <<"i", "f">>, <<"i", "m", "p", "o", "r", "t">>,
     <<"i", "n">>, <<"i", "s">>, <<"l", "a", "m", "b", "d", "a">>,
     <<"n", "o", "n", "l", "o", "c", "a", "l">>, <<"n", "o", "t">>, <<"o", "r">>,
     <<"p", "a", "s", "s">>, <<"r", "a", "i", "s", "e">>,
     <<"r", "e", "t", "u", "r", "n">>, <<"t", "r", "y">>, <<"w", "h", "i", "l", "e">>,
     <<"w", "i", "t", "h">>, <<"y", "i", "e", "l", "d">>}

\* a name that may follow a dot
IsIdentifier(w) ==
    /\ w # <<>>
    /\ w[1] \in IdentifierStart
    /\ \A i \in DOMAIN w : w[i] \in IdentifierStart \cup Digits
    /\ w \notin PythonKeywords

----------------------------------------------------------------------------
(* sagerender/builder/pipeline.py: the reference resolver *)

SELF_STEPS_OPEN == <<"s", "e", "l", "f", ".", "s", "t", "e", "p", "s", "[", "\"">>
SELF_STEPS_CLOSE == <<"\"", "]">>

\* eval() of the text _replace_argument builds.  The text evaluates to a
\* property of a step only if it is self.steps["<name>"] followed by an
\* attribute chain that starts with .properties. and names one attribute per
\* dot: then the step <name> is looked up in self.steps (KeyError when absent)
\* and the result is the Properties object of that step at the path (sagemaker
\* resolves the path; it is kept as written).  Of the other texts, Eval
\* handles the conditional expressions; the rest is a SyntaxError, a NameError
\* or an AttributeError, depending on the text (EvalError here).
PyEval(expr, stepTable) ==
    LET afterOpen == SubSeq(expr, Len(SELF_STEPS_OPEN) + 1, Len(expr))
        c == Find(afterOpen, SELF_STEPS_CLOSE)
        name == SubSeq(afterOpen, 1, c - 1)
        rest == SubSeq(afterOpen, c + Len(SELF_STEPS_CLOSE), Len(afterOpen))
        path == SubSeq(rest, Len(PROPERTIES_IDENTIFIER) + 1, Len(rest))
        attrs == Split(path, <<".">>)
    IN IF ~StartsWith(expr, SELF_STEPS_OPEN) \/ c = 0 THEN Raise("EvalError")
       ELSE IF ~StartsWith(rest, PROPERTIES_IDENTIFIER) THEN Raise("EvalError")
       ELSE IF \E i \in DOMAIN attrs : ~IsIdentifier(attrs[i]) THEN Raise("EvalError")
       ELSE IF ~DictHas(stepTable, name) THEN Raise("KeyError")
       ELSE [t |-> "Properties", step_name |-> DictGet(stepTable, name).name,
             path |-> path]

IF_POP ==
    <<"\"", "]", " ", "i", "f", " ", "s", "e", "l", "f", ".", "s", "t", "e", "p", "s",
      ".", "p", "o", "p", "(", "\"">>
ELSE_STEPS ==
    <<"\"", ")", " ", "e", "l", "s", "e", " ", "s", "e", "l", "f", ".", "s", "t", "e",
      "p", "s", "[", "\"">>

\* the text between two quotes of a string literal: no quote, no backslash
IsQuoted(w) == \A i \in DOMAIN w : w[i] \notin {"\"", "\\"}

\* the parts of a text of the form
\*   self.steps["<first>"] if self.steps.pop("<popped>") else self.steps["<last>"]<rest>
\* found is FALSE for a text that is not of this form
ConditionalParts(expr) ==
    LET afterOpen == SubSeq(expr, Len(SELF_STEPS_OPEN) + 1, Len(expr))
        c1 == Find(afterOpen, IF_POP)
        afterIf == SubSeq(afterOpen, c1 + Len(IF_POP), Len(afterOpen))
        c2 == Find(afterIf, ELSE_STEPS)
        afterElse == SubSeq(afterIf, c2 + Len(ELSE_STEPS), Len(afterIf))
        c3 == Find(afterElse, SELF_STEPS_CLOSE)
        rest == SubSeq(afterElse, c3 + Len(SELF_STEPS_CLOSE), Len(afterElse))
        path == SubSeq(rest, Len(PROPERTIES_IDENTIFIER) + 1, Len(rest))
    IN IF ~StartsWith(expr, SELF_STEPS_OPEN) \/ c1 = 0 THEN [found |-> FALSE]
       ELSE IF c2 = 0 THEN [found |-> FALSE]
       ELSE IF c3 = 0 \/ ~StartsWith(rest, PROPERTIES_IDENTIFIER) THEN [found |-> FALSE]
       ELSE [found |-> /\ IsQuoted(SubSeq(afterOpen, 1, c1 - 1))
                       /\ IsQuoted(SubSeq(afterIf, 1, c2 - 1))
                       /\ IsQuoted(SubSeq(afterElse, 1, c3 - 1))
                       /\ \A i \in DOMAIN Split(path, <<".">>) :
                             IsIdentifier(Split(path, <<".">>)[i]),
             first |-> SubSeq(afterOpen, 1, c1 - 1),
             popped |-> SubSeq(afterIf, 1, c2 - 1)]

\* eval() of a text that is a conditional expression of that form: the test
\* self.steps.pop("<popped>") runs first (KeyError when the name is absent)
\* and takes the step out of the table; a step is true, so the value is
\* self.steps["<first>"], looked up in the table after the pop
EvalConditional(parts, stepTable) ==
    IF ~DictHas(stepTable, parts.popped)
    THEN [steps |-> stepTable, out |-> Raise("KeyError")]
    ELSE IF ~DictHas(DictPop(stepTable, parts.popped), parts.first)
    THEN [steps |-> DictPop(stepTable, parts.popped), out |-> Raise("KeyError")]
    ELSE [steps |-> DictPop(stepTable, parts.popped),
          out |-> DictGet(stepTable, parts.first)]

\* eval() of the text _replace_argument builds: the step table after it and
\* its value
Eval(expr, stepTable) ==
    IF ConditionalParts(expr).found
    THEN EvalConditional(ConditionalParts(expr), stepTable)
    ELSE [steps |-> stepTable, out |-> PyEval(expr, stepTable)]

\* the text _replace_argument gives to eval() for a token with the marker
EvalText(arg) ==
    Replace(arg, Split(arg, PROPERTIES_IDENTIFIER)[1],
            SELF_STEPS_OPEN \o Split(arg, PROPERTIES_IDENTIFIER)[1] \o SELF_STEPS_CLOSE)

\* self.steps after _replace_argument(argument): only eval() can touch it
StepsAfterReplaceArgument(argument, stepTable) ==
    IF argument.t = "str"
       /\ ~StartsWith(argument.v, PARAMETER_PREFIX)
       /\ ~StartsWith(argument.v, EXECUTION_VARIABLE_PREFIX)
       /\ ~StartsWith(argument.v, PROPERTY_FILE_PREFIX)
       /\ Contains(argument.v, PROPERTIES_IDENTIFIER)
    THEN Eval(EvalText(argument.v), stepTable).steps
    ELSE stepTable

\* PipelineBuilder._replace_argument
_replace_argument(argument, params, propFiles, stepTable) ==
    IF argument.t = "str"
    THEN LET arg == argument.v
             key == Split(arg, <<":">>)[2]
             step_name == Split(arg, PROPERTIES_IDENTIFIER)[1]
         IN IF StartsWith(arg, PARAMETER_PREFIX)
            THEN IF DictHas(params, key) THEN DictGet(params, key)
                 ELSE Raise("KeyError")
            ELSE IF StartsWith(arg, EXECUTION_VARIABLE_PREFIX)
            THEN resolve_enum_name(EXECUTION_VARIABLES_CLASS_PATH \o <<":">> \o key)
            ELSE IF StartsWith(arg, PROPERTY_FILE_PREFIX)
            THEN IF DictHas(propFiles, key) THEN DictGet(propFiles, key)
                 ELSE Raise("KeyError")
            ELSE IF Contains(arg, PROPERTIES_IDENTIFIER)
            THEN Eval(Replace(arg, step_name,
                              SELF_STEPS_OPEN \o step_name \o SELF_STEPS_CLOSE),
                      stepTable).out
            ELSE argument
    ELSE argument

\* Calling a resolved constructor with keyword arguments: the constructed object
Construct(f, kwargs) ==
    [t |-> "instance", package |-> f.package, name |-> f.name, kwargs |-> kwargs.v]

RECURSIVE _replace_step_arguments(_, _, _, _)
RECURSIVE _replace_factory_function(_, _, _, _, _)
RECURSIVE ReplaceInKeys(_, _, _, _, _)
RECURSIVE ReplaceInList(_, _, _, _, _)

\* PipelineBuilder._replace_factory_function: the constructor is looked up first,
\* then the kwargs are resolved, then the constructor is called with them.
_replace_factory_function(factory_function, kwargs, params, propFiles, stepTable) ==
    IF factory_function.t # "str" THEN Raise("AttributeError")
    ELSE LET f == resolve_package_name(factory_function.v)
         IN IF Raised(f) THEN f
            ELSE IF kwargs.t # "dict" THEN Raise("AttributeError")
            ELSE LET r == _replace_step_arguments(kwargs, params, propFiles, stepTable)
                 IN IF Raised(r) THEN r
                    ELSE IF r.t # "dict" THEN Raise("TypeError")
                    ELSE Construct(f, r)

\* the inner loop without the isinstance(argument, dict) branch
RECURSIVE ReplaceInList_flat(_, _, _, _, _)
ReplaceInList_flat(list, idx, params, propFiles, stepTable) ==
    IF idx > Len(list) THEN PyList(list)
    ELSE LET r == _replace_argument(list[idx], params, propFiles, stepTable)
         IN IF Raised(r) THEN r
            ELSE ReplaceInList_flat([list EXCEPT ![idx] = r], idx + 1,
                                    params, propFiles, stepTable)

\* the inner loop of _replace_step_arguments over arguments[key], from index idx
ReplaceInList(list, idx, params, propFiles, stepTable) ==
    IF idx > Len(list) THEN PyList(list)
    ELSE LET argument == list[idx]
             r == IF argument.t = "dict"
                  THEN _replace_step_arguments(argument, params, propFiles, stepTable)
                  ELSE _replace_argument(argument, params, propFiles, stepTable)
         IN IF Raised(r) THEN r
            ELSE ReplaceInList([list EXCEPT ![idx] = r], idx + 1,
                               params, propFiles, stepTable)

\* the loop of _replace_step_arguments over arguments.keys(), from the i-th key;
\* items is the dict as assigned to so far
ReplaceInKeys(items, i, params, propFiles, stepTable) ==
    IF i > Len(items) THEN PyDict(items)
    ELSE LET key == items[i][1]
             val == items[i][2]
         IN IF key = FACTORY_FUNCTION
            THEN \* self._replace_factory_function(**arguments)
                 IF DictKeys(items) # {FACTORY_FUNCTION, "kwargs"} THEN Raise("TypeError")
                 ELSE _replace_factory_function(DictGet(items, FACTORY_FUNCTION),
                                                DictGet(items, "kwargs"),
                                                params, propFiles, stepTable)
            ELSE IF key = FACTORY_ENUM
            THEN IF val.t = "str" THEN resolve_enum_name(val.v)
                 ELSE Raise("AttributeError")
            ELSE LET r == IF val.t = "dict"
                          THEN _replace_step_arguments(val, params, propFiles, stepTable)
                          ELSE IF val.t = "list"
                          THEN ReplaceInList(val.v, 1, params, propFiles, stepTable)
                          ELSE IF val.t = "str"
                          THEN _replace_argument(val, params, propFiles, stepTable)
                          ELSE val
                 IN IF Raised(r) THEN r
                    ELSE ReplaceInKeys([items EXCEPT ![i] = <<key, r>>], i + 1,
                                       params, propFiles, stepTable)

\* PipelineBuilder._replace_step_arguments
_replace_step_arguments(arguments, params, propFiles, stepTable) ==
    IF arguments.t # "dict" THEN Raise("AttributeError")
    ELSE ReplaceInKeys(arguments.v, 1, params, propFiles, stepTable)

----------------------------------------------------------------------------
(* sagerender/builder/step.py: the step models *)

Field(name, type, required, default) ==
    [name |-> name, type |-> type, required |-> required, default |-> default]

\* BaseStepModel: name, depends_on, cache_config, retry_policies; extra fields allowed
BaseFields(retryType) ==
    <<Field("name", "str", TRUE, PyNone),
      Field("depends_on", "list", FALSE, PyNone),
      Field("cache_config", "any", FALSE, PyNone),
      Field("retry_policies", retryType, FALSE, PyNone)>>

\* the declared fields of each step model, base fields first
ModelFields(variant) ==
    CASE variant = "AutoMLStepModel" ->
           BaseFields("list") \o
           <<Field("automl", "str", FALSE, PyStr(DEFAULT_AUTOML)),
             Field("automl_kwargs", "dict", TRUE, PyNone),
             Field("fit_kwargs", "dict", TRUE, PyNone)>>
      [] variant = "CallbackStepModel" ->
           BaseFields("list") \o
           <<Field("sqs_queue_url", "str", TRUE, PyNone),
             Field("inputs", "dict", TRUE, PyNone),
             Field("outputs", "list", TRUE, PyNone)>>
      [] variant = "CheckStepStepModel" ->
           BaseFields("list") \o
           <<Field("check_job_config_kwargs", "dict", TRUE, PyNone),
             Field("clarify_check_config", "any", FALSE, PyNone),
             Field("quality_check_config", "any", FALSE, PyNone)>>
      [] variant = "ConditionStepModel" ->
           BaseFields("list") \o
           <<Field("conditions", "list", TRUE, PyNone),
             Field("if_steps", "list", TRUE, PyNone),
             Field("else_steps", "list", TRUE, PyNone)>>
      [] variant = "EMRStepModel" ->
           BaseFields("list") \o
           <<Field("emr_step_config_kwargs", "dict", TRUE, PyNone),
             Field("cluster_id", "str", FALSE, PyNone),
             Field("cluster_config", "dict", FALSE, PyNone),
             Field("execution_role_arn", "str", FALSE, PyNone),
             Field("display_name", "str", TRUE, PyNone),
             Field("description", "str", TRUE, PyNone)>>
      [] variant = "FailStepModel" ->
           BaseFields("list") \o
           <<Field("error_message", "any", TRUE, PyNone)>>
      [] variant = "LambdaStepModel" ->
           BaseFields("list") \o
           <<Field("lambda_func", "str", FALSE, PyStr(DEFAULT_LAMBDA_FUNC)),
             Field("lambda_func_kwargs", "dict", TRUE, PyNone),
             Field("inputs", "dict", FALSE, PyNone),
             Field("outputs", "list", FALSE, PyNone)>>
      [] variant = "ModelStepModel" ->
           BaseFields("dict_or_list") \o
           <<Field("model", "str", FALSE, PyStr(DEFAULT_MODEL)),
             Field("model_kwargs", "dict", TRUE, PyNone),
             Field("create_model_kwargs", "dict", FALSE, PyNone),
             Field("register_model_kwargs", "dict", FALSE, PyNone)>>
      [] variant = "NotebookJobStepModel" ->
           BaseFields("list") \o
           <<Field("notebook_job_kwargs", "dict", TRUE, PyNone)>>
      [] variant = "ProcessingStepModel" ->
           BaseFields("list") \o
           <<Field("processor", "str", FALSE, PyStr(DEFAULT_PROCESSOR)),
             Field("processor_kwargs", "dict", TRUE, PyNone),
             Field("step_kwargs", "dict", TRUE, PyNone),
             Field("property_files", "list", FALSE, PyNone)>>
      [] variant = "TrainingStepModel" ->
           BaseFields("list") \o
           <<Field("estimator", "str", FALSE, PyStr(DEFAULT_ESTIMATOR)),
             Field("estimator_kwargs", "dict", TRUE, PyNone),
             Field("fit_kwargs", "dict", TRUE, PyNone)>>
      [] variant = "TransformStepModel" ->
           BaseFields("list") \o
           <<Field("transformer", "str", FALSE, PyStr(DEFAULT_TRANSFORMER)),
             Field("transformer_kwargs", "dict", TRUE, PyNone),
             Field("step_kwargs", "dict", TRUE, PyNone)>>
      [] variant = "TuningStepModel" ->
           BaseFields("list") \o
           <<Field("estimator", "str", FALSE, PyStr(DEFAULT_ESTIMATOR)),
             Field("estimator_kwargs", "dict", TRUE, PyNone),
             Field("fit_kwargs", "dict", TRUE, PyNone),
             Field("tuner", "str", FALSE, PyStr(DEFAULT_TUNER)),
             Field("tuner_kwargs", "dict", TRUE, PyNone)>>

FieldNames(variant) == {ModelFields(variant)[i].name : i \in DOMAIN ModelFields(variant)}

\* pydantic's check of one value against a field's annotation
TypeOK(v, type) ==
    CASE type = "any" -> TRUE
      [] type = "dict_or_list" -> v.t \in {"dict", "list"}
      [] OTHER -> v.t = type

FieldOK(f, v) == IF f.required THEN TypeOK(v, f.type) ELSE v.t = "none" \/ TypeOK(v, f.type)

\* the step type keys of get_discriminator_value
step_types ==
    {"automl_kwargs", "check_job_config_kwargs", "conditions", "emr_step_config_kwargs",
     "error_message", "estimator_kwargs", "lambda_func_kwargs", "model_kwargs",
     "notebook_job_kwargs", "processor_kwargs", "sqs_queue_url", "transformer_kwargs",
     "tuner_kwargs"}

Tag(k) == [t |-> "tag", v |-> k]

\* get_discriminator_value without the len(matched_key) == 2 test
get_discriminator_value_any_length(v) ==
    LET matched_keys == step_types \cap DictKeys(v.v)
    IN IF Cardinality(matched_keys) = 1
       THEN Tag(CHOOSE k \in matched_keys : TRUE)
       ELSE IF {"estimator_kwargs", "tuner_kwargs"} \subseteq matched_keys
       THEN Tag("tuner_kwargs")
       ELSE Raise("ValueError")

\* get_discriminator_value: v is the step configuration (a dict)
get_discriminator_value(v) ==
    LET matched_keys == step_types \cap DictKeys(v.v)
    IN IF Cardinality(matched_keys) = 1
       THEN Tag(CHOOSE k \in matched_keys : TRUE)
       ELSE IF Cardinality(matched_keys) = 2
               /\ {"estimator_kwargs", "tuner_kwargs"} \subseteq matched_keys
       THEN Tag("tuner_kwargs")
       ELSE Raise("ValueError")

\* StepModel.step: the Tag of each member of the union
TaggedModel(tag) ==
    CASE tag = "automl_kwargs" -> "AutoMLStepModel"
      [] tag = "sqs_queue_url" -> "CallbackStepModel"
      [] tag = "processor_kwargs" -> "ProcessingStepModel"
      [] tag = "estimator_kwargs" -> "TrainingStepModel"
      [] tag = "tuner_kwargs" -> "TuningStepModel"
      [] tag = "transformer_kwargs" -> "TransformStepModel"
      [] tag = "model_kwargs" -> "ModelStepModel"
      [] tag = "check_job_config_kwargs" -> "CheckStepStepModel"
      [] tag = "conditions" -> "ConditionStepModel"
      [] tag = "emr_step_config_kwargs" -> "EMRStepModel"
      [] tag = "error_message" -> "FailStepModel"
      [] tag = "lambda_func_kwargs" -> "LambdaStepModel"
      [] tag = "notebook_job_kwargs" -> "NotebookJobStepModel"

\* the two options of a mutually exclusive group, or <<>> for a model without one
ExclusiveOptions(variant) ==
    CASE variant = "CheckStepStepModel" -> <<"clarify_check_config", "quality_check_config">>
      [] variant = "EMRStepModel" -> <<"cluster_id", "cluster_config">>
      [] variant = "ModelStepModel" -> <<"create_model_kwargs", "register_model_kwargs">>
      [] OTHER -> <<>>

\* the validators with `or` in place of `^`
mutually_exclusive_or(variant, fields) ==
    LET opts == ExclusiveOptions(variant)
    IN opts = <<>>
       \/ ((DictGet(fields, opts[1]).t # "none") \/ (DictGet(fields, opts[2]).t # "none"))

\* the mutually_exclusive model validators:
\* if not (a is not None) ^ (b is not None): raise ValueError
mutually_exclusive(variant, fields) ==
    LET opts == ExclusiveOptions(variant)
    IN opts = <<>>
       \/ ((DictGet(fields, opts[1]).t # "none") # (DictGet(fields, opts[2]).t # "none"))

\* pydantic's validation of a configuration against one step model: every
\* declared field is present or has a default and has its annotated type;
\* undeclared keys are kept as extra; the after-validator runs last.
ValidateModel(variant, cfg) ==
    LET schema == ModelFields(variant)
        bad == {i \in DOMAIN schema :
                  IF DictHas(cfg, schema[i].name)
                  THEN ~FieldOK(schema[i], DictGet(cfg, schema[i].name))
                  ELSE schema[i].required}
        fields == [i \in DOMAIN schema |->
                     <<schema[i].name,
                       IF DictHas(cfg, schema[i].name) THEN DictGet(cfg, schema[i].name)
                       ELSE schema[i].default>>]
        declared == FieldNames(variant)
        extra == SelectSeq(cfg, LAMBDA kv : kv[1] \notin declared)
    IN IF bad # {} THEN Raise("ValidationError")
       ELSE IF ~mutually_exclusive(variant, fields) THEN Raise("ValidationError")
       ELSE [t |-> "model", variant |-> variant, fields |-> fields, extra |-> extra]

\* StepModel.model_validate({"step": kwargs})
model_validate(kwargs) ==
    LET tag == get_discriminator_value(kwargs)
    IN IF Raised(tag) THEN tag
       ELSE ValidateModel(TaggedModel(tag.v), kwargs.v)

----------------------------------------------------------------------------
(* sagerender/builder/step.py: build() of each step model *)

\* getattr(self, k) on a validated model: a declared field or an extra one
Attr(m, k) == DictGet(m.fields \o m.extra, k)

\* BaseStepModel.kwargs: the extra fields that are not reserved keywords
ExtraKwargs(m) == SelectSeq(m.extra, LAMBDA kv : kv[1] \notin RESERVED_STEP_KEYWORDS)

\* f(explicit..., **star): a keyword given twice is a TypeError
CallKw(explicit, star) ==
    IF DictKeys(explicit) \cap DictKeys(star) # {} THEN Raise("TypeError")
    ELSE PyDict(explicit \o star)

\* resolve_package_name(path)(explicit..., **star)
NewHelper(path, explicit, star) ==
    IF path.t # "str" THEN Raise("AttributeError")
    ELSE LET Called(f, kw) == IF Raised(f) THEN f
                              ELSE IF Raised(kw) THEN kw
                              ELSE Construct(f, kw)
         IN Called(resolve_package_name(path.v), CallKw(explicit, star))

\* helper.method(**kwargs): the step arguments
StepArgs(helper, method, kwargs) ==
    [t |-> "step_args", helper |-> helper, method |-> method, kwargs |-> kwargs.v]

NetworkConfig(m) ==
    [t |-> "NetworkConfig", security_group_ids |-> Attr(m, "security_group_ids"),
     subnets |-> Attr(m, "subnets")]

VpcConfig(m) ==
    PyDict(<<<<"SecurityGroupIds", Attr(m, "security_group_ids")>>,
             <<"Subnets", Attr(m, "subnets")>>>>)

\* a sagemaker step object: Cls(explicit..., **star)
NewStep(cls, explicit, star) ==
    LET Called(kw) ==
            IF Raised(kw) THEN kw
            ELSE [t |-> "step", cls |-> cls, name |-> DictGet(explicit, "name").v,
                  args |-> kw.v]
    IN Called(CallKw(explicit, star))

\* a step built from a helper: the helper is constructed, its action method
\* gives the step arguments, and the step is constructed around them
HelperStep(cls, helper, method, methodKwargs, explicit, star) ==
    IF Raised(helper) THEN helper
    ELSE NewStep(cls, <<explicit[1], <<"step_args", StepArgs(helper, method, methodKwargs)>>>>
                      \o Tail(explicit), star)

RoleSession(m) ==
    <<<<"role", Attr(m, "role")>>, <<"sagemaker_session", Attr(m, "sagemaker_session")>>>>

Arg(m, k) == <<k, Attr(m, k)>>

AutoMLStepModel_build(m) ==
    HelperStep("AutoMLStep",
               NewHelper(Attr(m, "automl"),
                         RoleSession(m) \o <<<<"vpc_config", VpcConfig(m)>>>>,
                         Attr(m, "automl_kwargs").v),
               "fit", Attr(m, "fit_kwargs"),
               <<Arg(m, "name"), Arg(m, "cache_config"), Arg(m, "depends_on"),
                 Arg(m, "retry_policies")>>,
               ExtraKwargs(m))

CallbackStepModel_build(m) ==
    NewStep("CallbackStep",
            <<Arg(m, "name"), Arg(m, "sqs_queue_url"), Arg(m, "inputs"),
              Arg(m, "outputs"), Arg(m, "cache_config"), Arg(m, "depends_on")>>,
            <<>>)

\* CheckStepStepModel.check_job_config
check_job_config(m) ==
    LET Called(kw) == IF Raised(kw) THEN kw ELSE [t |-> "CheckJobConfig", kwargs |-> kw.v]
    IN Called(CallKw(RoleSession(m) \o <<<<"network_config", NetworkConfig(m)>>>>,
                     Attr(m, "check_job_config_kwargs").v))

CheckStepStepModel_build(m) ==
    LET clarify == Attr(m, "clarify_check_config").t # "none"
        quality == Attr(m, "quality_check_config").t # "none"
        func_name == IF clarify THEN CLARIFY_CHECK_STEP ELSE QUALITY_CHECK_STEP
        kwargs == ExtraKwargs(m)
                  \o <<IF clarify THEN Arg(m, "clarify_check_config")
                       ELSE Arg(m, "quality_check_config")>>
        Step(f, cjc) ==
            IF ~clarify /\ ~quality THEN Raise("RuntimeError")
            ELSE IF Raised(f) THEN f
            ELSE IF Raised(cjc) THEN cjc
            ELSE NewStep(Split(func_name, <<":">>)[2],
                         <<Arg(m, "name"), <<"check_job_config", cjc>>,
                           Arg(m, "cache_config"), Arg(m, "depends_on")>>,
                         kwargs)
    IN Step(resolve_package_name(func_name), check_job_config(m))

ConditionStepModel_build(m) ==
    NewStep("ConditionStep",
            <<Arg(m, "name"), Arg(m, "conditions"), Arg(m, "if_steps"),
              Arg(m, "else_steps"), Arg(m, "depends_on")>>,
            ExtraKwargs(m))

EMRStepModel_build(m) ==
    LET era == Attr(m, "execution_role_arn")
        \* self.execution_role_arn = self.execution_role_arn or self.role
        execution_role_arn ==
            IF Attr(m, "cluster_id").t # "none" /\ (era.t = "none" \/ era = PyStr(<<>>))
            THEN Attr(m, "role") ELSE era
    IN NewStep("EMRStep",
               <<Arg(m, "name"), Arg(m, "cluster_id"),
                 <<"step_config", [t |-> "EMRStepConfig",
                                   kwargs |-> Attr(m, "emr_step_config_kwargs").v]>>,
                 Arg(m, "cluster_config"),
                 <<"execution_role_arn", execution_role_arn>>,
                 Arg(m, "cache_config"), Arg(m, "depends_on"),
                 Arg(m, "display_name"), Arg(m, "description")>>,
               <<>>)

FailStepModel_build(m) ==
    NewStep("FailStep",
            <<Arg(m, "name"), Arg(m, "error_message"), Arg(m, "depends_on")>>,
            ExtraKwargs(m))

LambdaStepModel_build(m) ==
    LET given == Attr(m, "lambda_func_kwargs").v
        \* if "execution_role_arn" not in self.lambda_func_kwargs: ... = self.role
        lambda_func_kwargs ==
            IF DictHas(given, "execution_role_arn") THEN given
            ELSE Append(given, <<"execution_role_arn", Attr(m, "role")>>)
        Step(lambda_func) ==
            IF Raised(lambda_func) THEN lambda_func
            ELSE NewStep("LambdaStep",
                         <<Arg(m, "name"), <<"lambda_func", lambda_func>>,
                           Arg(m, "inputs"), Arg(m, "outputs"), Arg(m, "cache_config"),
                           Arg(m, "depends_on")>>,
                         ExtraKwargs(m))
    IN Step(NewHelper(Attr(m, "lambda_func"),
                      <<<<"session", Attr(m, "sagemaker_session")>>,
                        <<"vpc_config", VpcConfig(m)>>>>,
                      lambda_func_kwargs))

ModelStepModel_build(m) ==
    LET create == Attr(m, "create_model_kwargs").t # "none"
        register == Attr(m, "register_model_kwargs").t # "none"
        Step(model) ==
            IF Raised(model) THEN model
            ELSE IF ~create /\ ~register THEN Raise("RuntimeError")
            ELSE HelperStep("ModelStep", model,
                            IF create THEN "create" ELSE "register",
                            IF create THEN Attr(m, "create_model_kwargs")
                            ELSE Attr(m, "register_model_kwargs"),
                            <<Arg(m, "name"), Arg(m, "depends_on"),
                              Arg(m, "retry_policies")>>,
                            ExtraKwargs(m))
    IN Step(NewHelper(Attr(m, "model"),
                      RoleSession(m) \o <<<<"vpc_config", VpcConfig(m)>>>>,
                      Attr(m, "model_kwargs").v))

NotebookJobStepModel_build(m) ==
    NewStep("NotebookJobStep",
            <<Arg(m, "name"), Arg(m, "role"), Arg(m, "security_group_ids"),
              Arg(m, "subnets"), Arg(m, "depends_on"), Arg(m, "retry_policies")>>,
            Attr(m, "notebook_job_kwargs").v)

ProcessingStepModel_build(m) ==
    HelperStep("ProcessingStep",
               NewHelper(Attr(m, "processor"),
                         RoleSession(m) \o <<<<"network_config", NetworkConfig(m)>>>>,
                         Attr(m, "processor_kwargs").v),
               "run", Attr(m, "step_kwargs"),
               <<Arg(m, "name"), Arg(m, "property_files"), Arg(m, "cache_config"),
                 Arg(m, "retry_policies"), Arg(m, "depends_on")>>,
               ExtraKwargs(m))

\* the estimator of TrainingStepModel.build and TuningStepModel.build
Estimator(m) ==
    NewHelper(Attr(m, "estimator"),
              RoleSession(m) \o <<Arg(m, "security_group_ids"), Arg(m, "subnets")>>,
              Attr(m, "estimator_kwargs").v)

TrainingStepModel_build(m) ==
    HelperStep("TrainingStep", Estimator(m), "fit", Attr(m, "fit_kwargs"),
               <<Arg(m, "name"), Arg(m, "cache_config"), Arg(m, "retry_policies"),
                 Arg(m, "depends_on")>>,
               ExtraKwargs(m))

TransformStepModel_build(m) ==
    HelperStep("TransformStep",
               NewHelper(Attr(m, "transformer"),
                         <<Arg(m, "sagemaker_session")>>,
                         Attr(m, "transformer_kwargs").v),
               "transform", Attr(m, "step_kwargs"),
               <<Arg(m, "name"), Arg(m, "cache_config"), Arg(m, "retry_policies"),
                 Arg(m, "depends_on")>>,
               ExtraKwargs(m))

TuningStepModel_build(m) ==
    LET Step(estimator) ==
            IF Raised(estimator) THEN estimator
            ELSE HelperStep("TuningStep",
                            NewHelper(Attr(m, "tuner"), <<<<"estimator", estimator>>>>,
                                      Attr(m, "tuner_kwargs").v),
                            "fit", Attr(m, "fit_kwargs"),
                            <<Arg(m, "name"), Arg(m, "cache_config"),
                              Arg(m, "retry_policies"), Arg(m, "depends_on")>>,
                            ExtraKwargs(m))
    IN Step(Estimator(m))

\* self.step.build(): the build of the selected step model
StepBuild(m) ==
    CASE m.variant = "AutoMLStepModel" -> AutoMLStepModel_build(m)
      [] m.variant = "CallbackStepModel" -> CallbackStepModel_build(m)
      [] m.variant = "CheckStepStepModel" -> CheckStepStepModel_build(m)
      [] m.variant = "ConditionStepModel" -> ConditionStepModel_build(m)
      [] m.variant = "EMRStepModel" -> EMRStepModel_build(m)
      [] m.variant = "FailStepModel" -> FailStepModel_build(m)
      [] m.variant = "LambdaStepModel" -> LambdaStepModel_build(m)
      [] m.variant = "ModelStepModel" -> ModelStepModel_build(m)
      [] m.variant = "NotebookJobStepModel" -> NotebookJobStepModel_build(m)
      [] m.variant = "ProcessingStepModel" -> ProcessingStepModel_build(m)
      [] m.variant = "TrainingStepModel" -> TrainingStepModel_build(m)
      [] m.variant = "TransformStepModel" -> TransformStepModel_build(m)
      [] m.variant = "TuningStepModel" -> TuningStepModel_build(m)

\* The sagemaker classes a build calls are outside this repository: sdk is what
\* they do in this call, "ok" or the name of the exception the first of them
\* raises.  What the build itself raises before reaching them comes first.
SdkExceptions == {"ClientError"}

VariantBuild(m, sdk) ==
    LET Called(r) == IF sdk = "ok" \/ Raised(r) THEN r ELSE Raise(sdk)
    IN Called(StepBuild(m))

\* StepModel.build without the except clause
StepModel_build_unwrapped(m, sdk) == VariantBuild(m, sdk)

\* StepModel.build: try: return self.step.build()
\*                  except Exception as err: raise SagemakerStepException(...) from err
StepModel_build(m, sdk) ==
    LET Wrapped(r) ==
            IF Raised(r)
            THEN [t |-> "raise", exc |-> "SagemakerStepException",
                  step |-> Attr(m, "name").v, cause |-> r.exc]
            ELSE r
    IN Wrapped(VariantBuild(m, sdk))

----------------------------------------------------------------------------
(* sagerender/builder/pipeline.py: PipelineBuilder *)

\* the builder object, as the methods below read it
Self ==
    [parameters |-> parameters, property_files |-> property_files, steps |-> steps,
     role_arn |-> role_arn, sagemaker_session |-> sagemaker_session,
     security_group_ids |-> security_group_ids, subnets |-> subnets]

\* dict.get(key, default)
DictGetOr(d, k, default) == IF DictHas(d, k) THEN DictGet(d, k) ELSE default

\* dict.update(other): existing keys keep their place, new keys are appended
RECURSIVE DictUpdate(_, _)
DictUpdate(d, other) ==
    IF other = <<>> THEN d
    ELSE DictUpdate(DictSet(d, other[1][1], other[1][2]), Tail(other))

\* what `for step_name in steps_collection` iterates over: the elements of a
\* list, the characters of a string; a dict iterates its keys, which are no
\* step names here.  Anything else is not iterable.
Iterate(steps_collection) ==
    CASE steps_collection.t = "list" -> steps_collection.v
      [] steps_collection.t = "str" ->
           [i \in DOMAIN steps_collection.v |-> PyStr(<<steps_collection.v[i]>>)]
      [] OTHER -> <<>>

\* _replace_with_step_collection with self.steps[step_name] in place of
\* self.steps.pop(step_name): the step stays in the table
RECURSIVE PopEach_borrow(_, _, _)
PopEach_borrow(stepTable, names, popped) ==
    IF names = <<>> THEN [steps |-> stepTable, out |-> PyList(popped)]
    ELSE LET step_name == Head(names)
         IN IF step_name.t # "str" \/ ~DictHas(stepTable, step_name.v)
            THEN [steps |-> stepTable, out |-> Raise("KeyError")]
            ELSE PopEach_borrow(stepTable, Tail(names),
                                Append(popped, DictGet(stepTable, step_name.v)))

\* PipelineBuilder._replace_with_step_collection:
\*   [self.steps.pop(step_name) for step_name in steps_collection]
\* Returns the step table after the pops and the popped steps; a pop of a name
\* that is not in the table raises KeyError and the earlier pops stay.
RECURSIVE PopEach(_, _, _)
PopEach(stepTable, names, popped) ==
    IF names = <<>> THEN [steps |-> stepTable, out |-> PyList(popped)]
    ELSE LET step_name == Head(names)
         IN IF step_name.t # "str" \/ ~DictHas(stepTable, step_name.v)
            THEN [steps |-> stepTable, out |-> Raise("KeyError")]
            ELSE PopEach(DictPop(stepTable, step_name.v), Tail(names),
                         Append(popped, DictGet(stepTable, step_name.v)))

_replace_with_step_collection(stepTable, steps_collection) ==
    IF steps_collection.t \notin {"list", "str", "dict"}
    THEN [steps |-> stepTable, out |-> Raise("TypeError")]
    ELSE IF steps_collection.t = "dict" /\ steps_collection.v # <<>>
    THEN [steps |-> stepTable, out |-> Raise("KeyError")]
    ELSE PopEach(stepTable, Iterate(steps_collection), <<>>)

\* the update of add_step with setdefault in its place: what the
\* configuration gives for a key stays
BuilderKwargs_keep_given(self, name, kwargs) ==
    DictUpdate(<<<<"name", PyStr(name)>>,
                 <<"role", self.role_arn>>,
                 <<"sagemaker_session", self.sagemaker_session>>,
                 <<"security_group_ids", self.security_group_ids>>,
                 <<"subnets", self.subnets>>>>,
               kwargs)

\* kwargs.update({"name": kwargs.get("name", name), "role": self.role_arn, ...})
BuilderKwargs(self, name, kwargs) ==
    DictUpdate(kwargs,
               <<<<"name", DictGetOr(kwargs, "name", PyStr(name))>>,
                 <<"role", self.role_arn>>,
                 <<"sagemaker_session", self.sagemaker_session>>,
                 <<"security_group_ids", self.security_group_ids>>,
                 <<"subnets", self.subnets>>>>)

\* if "<key>" in kwargs: kwargs["<key>"] = self._replace_with_step_collection(
\*     kwargs["<key>"]), on the step table and kwargs the call has so far; out
\* holds the exception once one is raised
ReplaceCollection(call, key) ==
    IF Raised(call.out) \/ ~DictHas(call.kwargs, key) THEN call
    ELSE LET popped == _replace_with_step_collection(call.steps,
                                                     DictGet(call.kwargs, key))
         IN IF Raised(popped.out)
            THEN [steps |-> popped.steps, kwargs |-> call.kwargs, out |-> popped.out]
            ELSE [steps |-> popped.steps,
                  kwargs |-> DictSet(call.kwargs, key, popped.out), out |-> PyNone]

\* StepModel.model_validate({"step": kwargs}) unless an exception came before
ValidateKwargs(call) ==
    IF Raised(call.out) THEN [steps |-> call.steps, out |-> call.out]
    ELSE [steps |-> call.steps, out |-> model_validate(PyDict(call.kwargs))]

\* add_step after kwargs = self._replace_step_arguments(kwargs), up to
\* StepModel.model_validate
ValidateResolved(self, name, resolved) ==
    IF Raised(resolved) THEN [steps |-> self.steps, out |-> resolved]
    ELSE IF resolved.t # "dict" THEN [steps |-> self.steps, out |-> Raise("AttributeError")]
    ELSE ValidateKwargs(
           ReplaceCollection(
             ReplaceCollection([steps |-> self.steps,
                                kwargs |-> BuilderKwargs(self, name, resolved.v),
                                out |-> PyNone],
                               "if_steps"),
             "else_steps"))

\* PipelineBuilder.add_step(name, kwargs) up to StepModel.model_validate: the
\* step table the call has so far (after the pops) and the validated model, or
\* the exception raised before any build
add_step_validate(self, name, kwargs) ==
    ValidateResolved(self, name,
                     _replace_step_arguments(kwargs, self.parameters,
                                             self.property_files, self.steps))

\* self.steps[step.name] = step, unless the build raised
StoreStep(stepTable, step) ==
    IF Raised(step) THEN [steps |-> stepTable, out |-> step]
    ELSE [steps |-> DictSet(stepTable, step.name, step), out |-> step]

\* step = <validated model>.build(); self.steps[step.name] = step
BuildValidatedStep(validated, sdk) ==
    IF Raised(validated.out) THEN validated
    ELSE StoreStep(validated.steps, StepModel_build(validated.out, sdk))

\* PipelineBuilder.add_step(name, kwargs); sdk is what the sagemaker classes do
\* in this call.  Returns the step table the call leaves and its outcome: the
\* step it stored, or the exception it raised.
add_step(self, name, kwargs, sdk) ==
    BuildValidatedStep(add_step_validate(self, name, kwargs), sdk)

\* Pipeline(name, parameters=list(self.parameters.values()),
\*          steps=list(self.steps.values()), sagemaker_session=...)
NewPipeline(self) ==
    [t |-> "Pipeline", parameters |-> DictValues(self.parameters),
     steps |-> DictValues(self.steps), sagemaker_session |-> self.sagemaker_session]

----------------------------------------------------------------------------
(* The calls made on one PipelineBuilder *)

MaxAddSteps == 3   \* add_step calls made on one builder
MaxIds == 2        \* security group ids, subnets and tags added to one builder

ParameterNames == {<<"x">>}
PropertyFileNames == {<<"f">>}
StepNames == {<<"a">>, <<"s">>}

ParamRef(n) == PyStr(PARAMETER_PREFIX \o n)
PropertyFileRef(n) == PyStr(PROPERTY_FILE_PREFIX \o n)
PropertiesRef(stepName, path) == PyStr(stepName \o PROPERTIES_IDENTIFIER \o path)
EmptyDict == PyDict(<<>>)

FailConfig(message) == PyDict(<<<<"error_message", message>>>>)
ConditionConfig(if_steps, else_steps) ==
    PyDict(<<<<"conditions", PyList(<<>>)>>,
             <<"if_steps", PyList(if_steps)>>,
             <<"else_steps", PyList(else_steps)>>>>)
Named(name, cfg) == PyDict(<<<<"name", PyStr(name)>>>> \o cfg.v)
ModelConfig(create, register) ==
    PyDict(<<<<"model_kwargs", EmptyDict>>,
             <<"create_model_kwargs", create>>,
             <<"register_model_kwargs", register>>>>)

WithModel(path, cfg) == PyDict(<<<<"model", PyStr(path)>>>> \o cfg.v)

\* the step configurations given to add_step
StepConfigs ==
    {FailConfig(PyStr(<<"m">>)),
     FailConfig(ParamRef(<<"x">>)),
     FailConfig(ParamRef(<<"x", ":", "y">>)),
     FailConfig(PropertyFileRef(<<"f">>)),
     FailConfig(PropertiesRef(<<"a">>, <<"x">>)),
     Named(<<"c">>, ConditionConfig(<<PyStr(<<"a">>), PyStr(<<"s">>)>>, <<>>)),
     ConditionConfig(<<PyStr(<<"a">>)>>, <<>>),
     ModelConfig(EmptyDict, PyNone),
     ModelConfig(EmptyDict, EmptyDict),
     WithModel(<<"z", ":", "Z">>, ModelConfig(EmptyDict, PyNone))}

SdkOutcomes == {"ok"} \cup SdkExceptions

\* the fields that hold nothing before a call sets them: the tags of a new
\* builder, no blueprint instance, main not started
NoCalls ==
    /\ tags = PyList(<<>>)
    /\ added = <<>>
    /\ context = <<>>
    /\ instance = 0
    /\ pc = "idle"
    /\ trace = <<>>

\* and no resource locator in use
NoHistory ==
    /\ NoCalls
    /\ locator = [entry_points |-> <<>>, resources |-> PyNone]

\* PipelineBuilder.__init__
BuilderFields ==
    /\ parameters = <<>>
    /\ property_files = <<>>
    /\ steps = <<>>
    /\ pipeline = PyNone
    /\ role_arn = PyNone
    /\ sagemaker_session = PyNone
    /\ security_group_ids = PyList(<<>>)
    /\ subnets = PyList(<<>>)
    /\ service_calls = {}
    /\ calls = 0
    /\ config = PyNone

BuilderInit ==
    /\ BuilderFields
    /\ NoHistory

Init ==
    /\ BuilderInit
    /\ input = [op |-> "__init__"]
    /\ output = PyNone

\* resolve_package_name(value["type"])(name=parameter, default_value=...)
NewParameter(parameter) ==
    Construct(resolve_package_name(PARAMETER_STRING),
              PyDict(<<<<"name", PyStr(parameter)>>, <<"default_value", PyNone>>>>))

\* PropertyFile(name=property_file, **kwargs)
NewPropertyFile(property_file) == [t |-> "PropertyFile", name |-> property_file]

\* add_parameter(parameter, value)
AddParameter(parameter) ==
    /\ parameters' = DictSet(parameters, parameter, NewParameter(parameter))
    /\ input' = [op |-> "add_parameter", parameter |-> parameter]
    /\ output' = PyNone
    /\ UNCHANGED <<property_files, steps, settings, pipeline, service_calls, calls,
                   blueprint, tags, added, command>>

\* add_property_file(property_file, kwargs)
AddPropertyFile(property_file) ==
    /\ property_files' = DictSet(property_files, property_file,
                                 NewPropertyFile(property_file))
    /\ input' = [op |-> "add_property_file", property_file |-> property_file]
    /\ output' = PyNone
    /\ UNCHANGED <<parameters, steps, settings, pipeline, service_calls, calls,
                   blueprint, tags, added, command>>

\* add_step(name, kwargs)
AddStep(name, kwargs, sdk) ==
    LET Returned(r) ==
            /\ steps' = r.steps
            /\ output' = r.out
            /\ added' = IF Raised(r.out) THEN added
                        ELSE Append(added, [name |-> name, kwargs |-> kwargs,
                                            step |-> r.out.name])
    IN /\ calls < MaxAddSteps
       /\ calls' = calls + 1
       /\ Returned(add_step(Self, name, kwargs, sdk))
       /\ input' = [op |-> "add_step", name |-> name, kwargs |-> kwargs, sdk |-> sdk]
       /\ UNCHANGED <<parameters, property_files, settings, pipeline, service_calls,
                      blueprint, tags, command>>

SetRoleArn(role) ==
    /\ role_arn' = role
    /\ input' = [op |-> "set_role_arn"]
    /\ output' = PyNone
    /\ UNCHANGED <<tables, sagemaker_session, security_group_ids, subnets, pipeline,
                   service_calls, calls,
                   blueprint, tags, added, command>>

SetSagemakerSession(session) ==
    /\ sagemaker_session' = session
    /\ input' = [op |-> "set_sagemaker_session"]
    /\ output' = PyNone
    /\ UNCHANGED <<tables, role_arn, security_group_ids, subnets, pipeline,
                   service_calls, calls,
                   blueprint, tags, added, command>>

AddSecurityGroupId(id) ==
    /\ Len(security_group_ids.v) < MaxIds
    /\ security_group_ids' = PyList(Append(security_group_ids.v, id))
    /\ input' = [op |-> "add_security_group_id"]
    /\ output' = PyNone
    /\ UNCHANGED <<tables, role_arn, sagemaker_session, subnets, pipeline,
                   service_calls, calls,
                   blueprint, tags, added, command>>

AddSubnet(subnet) ==
    /\ Len(subnets.v) < MaxIds
    /\ subnets' = PyList(Append(subnets.v, subnet))
    /\ input' = [op |-> "add_subnet"]
    /\ output' = PyNone
    /\ UNCHANGED <<tables, role_arn, sagemaker_session, security_group_ids, pipeline,
                   service_calls, calls,
                   blueprint, tags, added, command>>

\* build(): self.pipeline = Pipeline(...); the constructor is sagemaker's
Build(sdk) ==
    /\ pipeline' = IF sdk = "ok" THEN NewPipeline(Self) ELSE pipeline
    /\ input' = [op |-> "build", sdk |-> sdk]
    /\ output' = IF sdk = "ok" THEN PyNone ELSE Raise(sdk)
    /\ UNCHANGED <<tables, settings, service_calls, calls,
                   blueprint, tags, added, command>>

\* definition(), upsert() and run() without the `if not self.pipeline` test
PipelineCall_unguarded(op, method) ==
    /\ input' = [op |-> op]
    /\ output' = PyNone
    /\ service_calls' = service_calls \cup {method}
    /\ UNCHANGED <<tables, settings, pipeline, calls,
                   blueprint, tags, added, command>>

\* definition(), upsert() and run(): raise PipelineNotFoundError if not
\* self.pipeline, else call definition(), upsert(...) or start(...) on it
PipelineCall(op, method) ==
    /\ input' = [op |-> op]
    /\ IF pipeline.t = "none"
       THEN /\ output' = Raise("PipelineNotFoundError")
            /\ UNCHANGED service_calls
       ELSE /\ output' = PyNone
            /\ service_calls' = service_calls \cup {method}
    /\ UNCHANGED <<tables, settings, pipeline, calls,
                   blueprint, tags, added, command>>

Definition == PipelineCall("definition", "definition")
Upsert == PipelineCall("upsert", "upsert")
Run == PipelineCall("run", "start")

\* Every operation of the builder, on a small set of step configurations
LifecycleConfigs == {FailConfig(PyStr(<<"m">>)), FailConfig(ParamRef(<<"x">>))}

Next ==
    \/ \E p \in ParameterNames : AddParameter(p)
    \/ \E k \in LifecycleConfigs, sdk \in SdkOutcomes : AddStep(<<"a">>, k, sdk)
    \/ SetRoleArn(PyStr(<<"r">>))
    \/ SetSagemakerSession([t |-> "session"])
    \/ \E sdk \in SdkOutcomes : Build(sdk)
    \/ Definition
    \/ Upsert
    \/ Run

Spec == Init /\ [][Next]_vars

\* C9: definition(), upsert() and run() raise PipelineNotFoundError if and only
\* if no build() has completed before them: the pipeline is set by a completed
\* build() and by nothing else and is never unset; a call before it raises,
\* changes nothing in the builder and reaches no method of the pipeline; a call
\* after it does not raise and reaches its method.
C9_PipelineNotFound ==
    [][/\ pipeline.t # "none" => pipeline'.t # "none"
       /\ (pipeline.t = "none" /\ pipeline'.t # "none")
             => (input'.op = "build" /\ ~Raised(output'))
       /\ (input'.op = "build" /\ ~Raised(output')) => pipeline'.t # "none"
       /\ input'.op \in {"definition", "upsert", "run"} =>
             IF pipeline.t = "none"
             THEN /\ output' = Raise("PipelineNotFoundError")
                  /\ UNCHANGED <<tables, settings, pipeline, service_calls>>
             ELSE /\ ~Raised(output')
                  /\ service_calls' = service_calls
                        \cup {IF input'.op = "run" THEN "start" ELSE input'.op}
                  /\ UNCHANGED <<tables, settings, pipeline>>
      ]_vars

\* upsert() has raised on a builder that holds a step and a role
C9_Witness ==
    /\ input.op = "upsert"
    /\ output = Raise("PipelineNotFoundError")
    /\ steps # <<>>
    /\ role_arn # PyNone
    /\ service_calls = {}

\* The assembly of the step table: parameters, property files and steps
NextAssembly ==
    \/ \E p \in ParameterNames : AddParameter(p)
    \/ \E f \in PropertyFileNames : AddPropertyFile(f)
    \/ \E n \in StepNames, k \in StepConfigs, sdk \in SdkOutcomes : AddStep(n, k, sdk)

SpecAssembly == Init /\ [][NextAssembly]_vars

\* the step just taken is an add_step call
IsAddStep == input'.op = "add_step" /\ calls' = calls + 1

\* the names a condition step configuration lists in its branches
BranchNames(kwargs) ==
    DictGet(kwargs.v, "if_steps").v \o DictGet(kwargs.v, "else_steps").v

\* the text before the first ".properties." of a token
NamedStep(token) == SubSeq(token, 1, Find(token, PROPERTIES_IDENTIFIER) - 1)

\* the text after a prefix
AfterPrefix(token, prefix) == SubSeq(token, Len(prefix) + 1, Len(token))

\* the token a fail step configuration carries as its error message
MessageToken(kwargs) ==
    IF DictHas(kwargs.v, "error_message") /\ DictGet(kwargs.v, "error_message").t = "str"
    THEN DictGet(kwargs.v, "error_message").v
    ELSE <<>>

\* C2: a successful add_step of a condition step removes every step named in
\* if_steps and else_steps from the step table and makes them the members of the
\* condition step's branch lists, in the listed order; afterwards none of those
\* names is a key of the step table, and the next add_step of a step that
\* references <name>.properties.<path> for one of those names fails.
C2_ConditionConsumes ==
    [][/\ (IsAddStep /\ DictHas(input'.kwargs.v, "conditions") /\ output'.t = "step") =>
            LET if_steps == DictGet(input'.kwargs.v, "if_steps").v
                else_steps == DictGet(input'.kwargs.v, "else_steps").v
            IN /\ \A i \in DOMAIN BranchNames(input'.kwargs) :
                     ~DictHas(steps', BranchNames(input'.kwargs)[i].v)
               /\ DictGet(output'.args, "if_steps")
                     = PyList([i \in DOMAIN if_steps |-> DictGet(steps, if_steps[i].v)])
               /\ DictGet(output'.args, "else_steps")
                     = PyList([i \in DOMAIN else_steps |-> DictGet(steps, else_steps[i].v)])
       /\ (/\ input.op = "add_step" /\ DictHas(input.kwargs.v, "conditions")
           /\ output.t = "step"
           /\ IsAddStep
           /\ \E i \in DOMAIN BranchNames(input.kwargs) :
                 StartsWith(MessageToken(input'.kwargs),
                            BranchNames(input.kwargs)[i].v \o PROPERTIES_IDENTIFIER))
            => Raised(output')
      ]_vars

\* a condition step has consumed two steps built before it
C2_Witness ==
    /\ input.op = "add_step"
    /\ output.t = "step"
    /\ output.cls = "ConditionStep"
    /\ Len(DictGet(output.args, "if_steps").v) = 2
    /\ steps = <<<<output.name, output>>>>

\* the symbol a token refers to is missing from its table
MissingSymbol(token, params, propFiles, stepTable) ==
    \/ /\ StartsWith(token, PARAMETER_PREFIX)
       /\ ~DictHas(params, AfterPrefix(token, PARAMETER_PREFIX))
    \/ /\ StartsWith(token, PROPERTY_FILE_PREFIX)
       /\ ~DictHas(propFiles, AfterPrefix(token, PROPERTY_FILE_PREFIX))
    \/ /\ ~StartsWith(token, PARAMETER_PREFIX)
       /\ ~StartsWith(token, PROPERTY_FILE_PREFIX)
       /\ ~StartsWith(token, EXECUTION_VARIABLE_PREFIX)
       /\ Contains(token, PROPERTIES_IDENTIFIER)
       /\ ~DictHas(stepTable, NamedStep(token))

\* C3: an add_step whose configuration references param:x, propertyFile:f or
\* s.properties.p while x, f or s is not in its table fails at that call and
\* leaves the step table as it was; adding a parameter or a property file later
\* builds no step.
C3_NoDeferral ==
    [][/\ (IsAddStep /\ MissingSymbol(MessageToken(input'.kwargs),
                                      parameters, property_files, steps))
            => (Raised(output') /\ steps' = steps)
       /\ input'.op \in {"add_parameter", "add_property_file"} => steps' = steps
      ]_vars

\* a step that refers to its own properties has been refused
C3_Witness ==
    /\ input.op = "add_step"
    /\ input.name = <<"a">>
    /\ MessageToken(input.kwargs) = PropertiesRef(<<"a">>, <<"x">>).v
    /\ Raised(output)
    /\ steps = <<>>

----------------------------------------------------------------------------
(* _replace_argument on every token, in environments of one name *)

MaxNameLen == 2   \* characters in a name of a parameter, property file, step or path

Alphabet == {"a", "s", ":"}

RECURSIVE Words(_)
Words(n) ==
    IF n = 0 THEN {<<>>}
    ELSE Words(n - 1) \cup {Append(w, c) : w \in Words(n - 1), c \in Alphabet}

Names == Words(MaxNameLen) \ {<<>>}

\* the builder as __init__ leaves it
NewBuilder ==
    [parameters |-> <<>>, property_files |-> <<>>, steps |-> <<>>,
     role_arn |-> PyNone, sagemaker_session |-> PyNone,
     security_group_ids |-> PyList(<<>>), subnets |-> PyList(<<>>)]

\* the fail step that add_step(name, {"error_message": "m"}) stores
FailStepNamed(name) == add_step(NewBuilder, name, FailConfig(PyStr(<<"m">>)), "ok").out

Tokens ==
    {PARAMETER_PREFIX \o n : n \in Names}
    \cup {PROPERTY_FILE_PREFIX \o n : n \in Names}
    \cup {S \o PROPERTIES_IDENTIFIER \o P : S \in Names, P \in Names}
    \cup Names

\* a builder that holds no name, or one name in each of its tables, and a token
InitResolver ==
    /\ \E K \in {{}} \cup {{n} : n \in Names} :
          /\ parameters = IF K = {} THEN <<>>
                          ELSE <<<<CHOOSE n \in K : TRUE, NewParameter(CHOOSE n \in K : TRUE)>>>>
          /\ property_files = IF K = {} THEN <<>>
                              ELSE <<<<CHOOSE n \in K : TRUE,
                                       NewPropertyFile(CHOOSE n \in K : TRUE)>>>>
          /\ steps = IF K = {} THEN <<>>
                     ELSE <<<<CHOOSE n \in K : TRUE, FailStepNamed(CHOOSE n \in K : TRUE)>>>>
    /\ pipeline = PyNone
    /\ role_arn = PyNone
    /\ sagemaker_session = PyNone
    /\ security_group_ids = PyList(<<>>)
    /\ subnets = PyList(<<>>)
    /\ service_calls = {}
    /\ calls = 0
    /\ config = PyNone
    /\ NoHistory
    /\ input \in {[op |-> "_replace_argument", argument |-> PyStr(t)] : t \in Tokens}
    /\ output = Pending

ReplaceArgument ==
    /\ input.op = "_replace_argument"
    /\ output = Pending
    /\ output' = _replace_argument(input.argument, parameters, property_files, steps)
    /\ steps' = StepsAfterReplaceArgument(input.argument, steps)
    /\ UNCHANGED <<parameters, property_files, settings, pipeline, service_calls,
                   input, calls, blueprint, tags, added, command>>

NextResolver == ReplaceArgument

SpecResolver == InitResolver /\ [][NextResolver]_vars

\* C4: for every name n, names that contain ':' included, _replace_argument of
\* "param:" + n returns parameters[n] when n is a key of the parameter table and
\* raises when it is not, and _replace_argument of "propertyFile:" + n does the
\* same with the property file table: the key is the text after the prefix.
C4_PrefixLookup ==
    (input.op = "_replace_argument" /\ output # Pending) =>
        /\ StartsWith(input.argument.v, PARAMETER_PREFIX) =>
              LET n == AfterPrefix(input.argument.v, PARAMETER_PREFIX)
              IN IF DictHas(parameters, n) THEN output = DictGet(parameters, n)
                 ELSE Raised(output)
        /\ StartsWith(input.argument.v, PROPERTY_FILE_PREFIX) =>
              LET n == AfterPrefix(input.argument.v, PROPERTY_FILE_PREFIX)
              IN IF DictHas(property_files, n) THEN output = DictGet(property_files, n)
                 ELSE Raised(output)

\* the text after the first ".properties." of a token
NamedPath(token) ==
    SubSeq(token, Find(token, PROPERTIES_IDENTIFIER) + Len(PROPERTIES_IDENTIFIER),
           Len(token))

\* a property path: names separated by dots
IsPropertyPath(P) == \A i \in DOMAIN Split(P, <<".">>) : IsIdentifier(Split(P, <<".">>)[i])

\* C5: for every token S + ".properties." + P that starts with none of the
\* prefixes, S being the text before the first ".properties." and P a property
\* path, _replace_argument returns the path P of the properties of steps[S] when
\* S is in the step table and raises when it is not; paths in which the text of
\* S occurs again included.
C5_PropertiesLookup ==
    (/\ input.op = "_replace_argument" /\ output # Pending
     /\ ~StartsWith(input.argument.v, PARAMETER_PREFIX)
     /\ ~StartsWith(input.argument.v, EXECUTION_VARIABLE_PREFIX)
     /\ ~StartsWith(input.argument.v, PROPERTY_FILE_PREFIX)
     /\ Contains(input.argument.v, PROPERTIES_IDENTIFIER)
     /\ IsPropertyPath(NamedPath(input.argument.v))) =>
        LET S == NamedStep(input.argument.v)
        IN IF DictHas(steps, S)
           THEN output = [t |-> "Properties", step_name |-> DictGet(steps, S).name,
                          path |-> NamedPath(input.argument.v)]
           ELSE Raised(output)

----------------------------------------------------------------------------
(* _replace_step_arguments on configuration trees *)

MaxListLen == 3   \* elements in a list of a configuration tree

TreeLeaves == {PyInt(1), PyStr(<<"m">>), ParamRef(<<"x">>)}

FactoryMap(kwargs) ==
    PyDict(<<<<FACTORY_FUNCTION, PyStr(<<"m", ":", "J">>)>>, <<"kwargs", kwargs>>>>)
FactoryMapKwargsFirst(kwargs) ==
    PyDict(<<<<"kwargs", kwargs>>, <<FACTORY_FUNCTION, PyStr(<<"m", ":", "J">>)>>>>)
EnumMap == PyDict(<<<<FACTORY_ENUM, PyStr(<<"m", ":", "E", ":", "X">>)>>>>)
Under(key, value) == PyDict(<<<<key, value>>>>)

RECURSIVE ListsOf(_, _)
ListsOf(elements, n) ==
    IF n = 0 THEN {<<>>}
    ELSE ListsOf(elements, n - 1)
         \cup {Append(l, e) : l \in ListsOf(elements, n - 1), e \in elements}

\* mappings of literals, tokens and factory maps
InnerMaps ==
    {EmptyDict, Under("k", EnumMap), Under("k", FactoryMap(EmptyDict))}
    \cup {Under("k", l) : l \in TreeLeaves}

ListElements ==
    TreeLeaves
    \cup {EnumMap, Under("k", ParamRef(<<"x">>)), FactoryMap(Under("k", ParamRef(<<"x">>)))}

TreeValues ==
    TreeLeaves \cup InnerMaps \cup {EnumMap}
    \cup {PyList(l) : l \in ListsOf(ListElements, MaxListLen)}
    \cup {FactoryMap(m) : m \in InnerMaps}
    \cup {FactoryMapKwargsFirst(m) : m \in InnerMaps}

Trees ==
    {Under("a", v) : v \in TreeValues}
    \cup {PyDict(<<<<"a", v>>, <<"b", w>>>>) :
            v \in TreeLeaves \cup {FactoryMap(EmptyDict)},
            w \in TreeLeaves \cup {FactoryMap(EmptyDict)}}
    \cup {FactoryMap(m) : m \in InnerMaps}
    \cup {FactoryMapKwargsFirst(m) : m \in InnerMaps}
    \cup {EnumMap}

\* a builder with or without the parameter x, and a tree
InitTree ==
    /\ parameters \in {<<>>, <<<<<<"x">>, NewParameter(<<"x">>)>>>>}
    /\ property_files = <<>>
    /\ steps = <<>>
    /\ pipeline = PyNone
    /\ role_arn = PyNone
    /\ sagemaker_session = PyNone
    /\ security_group_ids = PyList(<<>>)
    /\ subnets = PyList(<<>>)
    /\ service_calls = {}
    /\ calls = 0
    /\ config = PyNone
    /\ NoHistory
    /\ input \in {[op |-> "_replace_step_arguments", arguments |-> T] : T \in Trees}
    /\ output = Pending

ReplaceStepArguments ==
    /\ input.op = "_replace_step_arguments"
    /\ output = Pending
    /\ output' = _replace_step_arguments(input.arguments, parameters, property_files, steps)
    /\ UNCHANGED <<tables, settings, pipeline, service_calls, input, calls,
                   blueprint, tags, added, command>>

NextTree == ReplaceStepArguments

SpecTree == InitTree /\ [][NextTree]_vars

\* a string with a recognised prefix or marker
IsToken(v) ==
    /\ v.t = "str"
    /\ \/ StartsWith(v.v, PARAMETER_PREFIX)
       \/ StartsWith(v.v, EXECUTION_VARIABLE_PREFIX)
       \/ StartsWith(v.v, PROPERTY_FILE_PREFIX)
       \/ Contains(v.v, PROPERTIES_IDENTIFIER)

\* the tree with its tokens resolved and its factory maps constructed, innermost
\* first; an exception if one of the resolutions raises
RECURSIVE Resolved(_)
Resolved(T) ==
    CASE T.t = "dict" /\ DictHas(T.v, FACTORY_FUNCTION) ->
           LET kwargs == Resolved(DictGet(T.v, "kwargs"))
               f == resolve_package_name(DictGet(T.v, FACTORY_FUNCTION).v)
           IN IF Raised(kwargs) THEN kwargs
              ELSE IF Raised(f) THEN f
              ELSE [t |-> "instance", package |-> f.package, name |-> f.name,
                    kwargs |-> kwargs.v]
      [] T.t = "dict" /\ ~DictHas(T.v, FACTORY_FUNCTION) /\ DictHas(T.v, FACTORY_ENUM) ->
           resolve_enum_name(DictGet(T.v, FACTORY_ENUM).v)
      [] T.t = "dict" /\ ~DictHas(T.v, FACTORY_FUNCTION) /\ ~DictHas(T.v, FACTORY_ENUM) ->
           IF \E i \in DOMAIN T.v : Raised(Resolved(T.v[i][2])) THEN Raise("KeyError")
           ELSE PyDict([i \in DOMAIN T.v |-> <<T.v[i][1], Resolved(T.v[i][2])>>])
      [] T.t = "list" ->
           IF \E i \in DOMAIN T.v : Raised(Resolved(T.v[i])) THEN Raise("KeyError")
           ELSE PyList([i \in DOMAIN T.v |-> Resolved(T.v[i])])
      [] OTHER ->
           IF IsToken(T) THEN _replace_argument(T, parameters, property_files, steps)
           ELSE T

\* a tree without factory keys and without tokens
RECURSIVE LiteralOnly(_)
LiteralOnly(T) ==
    CASE T.t = "dict" ->
           /\ ~DictHas(T.v, FACTORY_FUNCTION) /\ ~DictHas(T.v, FACTORY_ENUM)
           /\ \A i \in DOMAIN T.v : LiteralOnly(T.v[i][2])
      [] T.t = "list" -> \A i \in DOMAIN T.v : LiteralOnly(T.v[i])
      [] OTHER -> ~IsToken(T)

\* C6: _replace_step_arguments(T) has the shape of T with every mapping that
\* carries a factory key replaced by one constructed value, every token replaced
\* by its resolution, every other leaf unchanged, and the factory maps inside the
\* kwargs of a factory map constructed before it; it raises when a resolution
\* raises; for a literal-only T the result equals T.
C6_TreeShape ==
    (input.op = "_replace_step_arguments" /\ output # Pending) =>
        /\ IF Raised(Resolved(input.arguments)) THEN Raised(output)
           ELSE output = Resolved(input.arguments)
        /\ LiteralOnly(input.arguments) => output = input.arguments

\* a list of a literal, a token and a factory map whose kwargs hold a token has
\* been resolved
C6_Witness ==
    /\ input.op = "_replace_step_arguments"
    /\ input.arguments = Under("a", PyList(<<PyStr(<<"m">>), ParamRef(<<"x">>),
                                             FactoryMap(Under("k", ParamRef(<<"x">>)))>>))
    /\ output = Under("a", PyList(<<PyStr(<<"m">>), NewParameter(<<"x">>),
                                    [t |-> "instance", package |-> <<"m">>, name |-> <<"J">>,
                                     kwargs |-> <<<<"k", NewParameter(<<"x">>)>>>>]>>))

----------------------------------------------------------------------------
(* add_step of one step of every step model *)

Variants == {TaggedModel(k) : k \in step_types}

\* a value of a field's annotated type
ValueOf(type) ==
    CASE type = "dict" -> EmptyDict
      [] type = "list" -> PyList(<<>>)
      [] type = "str" -> PyStr(<<"v">>)
      [] OTHER -> PyStr(<<"m">>)

\* the required fields of a step model but its name
RequiredFields(variant) ==
    LET needed == SelectSeq(ModelFields(variant),
                            LAMBDA f : f.name # "name" /\ f.required)
    IN PyDict([i \in DOMAIN needed |-> <<needed[i].name, ValueOf(needed[i].type)>>])

FieldType(variant, name) ==
    LET schema == ModelFields(variant)
    IN schema[CHOOSE i \in DOMAIN schema : schema[i].name = name].type

\* the required fields and the first option of the mutually exclusive group
RequiredConfig(variant) ==
    IF ExclusiveOptions(variant) = <<>> THEN RequiredFields(variant)
    ELSE PyDict(Append(RequiredFields(variant).v,
                       <<ExclusiveOptions(variant)[1],
                         ValueOf(FieldType(variant, ExclusiveOptions(variant)[1]))>>))

\* the field that names the class of a step model's helper, and the field that
\* holds the keyword arguments of that class; "" for a model without a helper
ClassPathField(variant) ==
    CASE variant = "AutoMLStepModel" -> "automl"
      [] variant = "LambdaStepModel" -> "lambda_func"
      [] variant = "ModelStepModel" -> "model"
      [] variant = "ProcessingStepModel" -> "processor"
      [] variant = "TrainingStepModel" -> "estimator"
      [] variant = "TransformStepModel" -> "transformer"
      [] variant = "TuningStepModel" -> "tuner"
      [] OTHER -> ""

HelperKwargsField(variant) ==
    CASE variant = "AutoMLStepModel" -> "automl_kwargs"
      [] variant = "LambdaStepModel" -> "lambda_func_kwargs"
      [] variant = "ModelStepModel" -> "model_kwargs"
      [] variant = "ProcessingStepModel" -> "processor_kwargs"
      [] variant = "TrainingStepModel" -> "estimator_kwargs"
      [] variant = "TransformStepModel" -> "transformer_kwargs"
      [] variant = "TuningStepModel" -> "tuner_kwargs"
      [] OTHER -> ""

HelperVariants == {v \in Variants : ClassPathField(v) # ""}

\* the configurations: the required fields alone, with a class path of a module
\* that does not exist, and with a keyword the build passes itself
BuildConfigs ==
    {RequiredConfig(v) : v \in Variants}
    \cup {PyDict(DictSet(RequiredConfig(v).v, ClassPathField(v),
                         PyStr(<<"z", ":", "Z">>))) : v \in HelperVariants}
    \cup {PyDict(DictSet(RequiredConfig(v).v, HelperKwargsField(v),
                         PyDict(<<<<"role", PyStr(<<"r">>)>>>>))) : v \in HelperVariants}

\* one add_step on a new builder, or on one that holds a fail step
BuildStep(name, kwargs, sdk) ==
    /\ calls = 0 \/ (calls = 1 /\ output.t = "step" /\ output.cls = "FailStep")
    /\ AddStep(name, kwargs, sdk)

NextBuild ==
    \E n \in StepNames, k \in BuildConfigs, sdk \in SdkOutcomes : BuildStep(n, k, sdk)

SpecBuild == Init /\ [][NextBuild]_vars

\* C8: every exception raised while the selected step model builds its step
\* leaves StepModel.build as a SagemakerStepException that names the step and
\* has the original exception as its cause, and add_step then stores no step.
C8_BuildWrapped ==
    [][IsAddStep =>
         LET validated == add_step_validate(Self, input'.name, input'.kwargs)
             built == VariantBuild(validated.out, input'.sdk)
         IN (~Raised(validated.out) /\ Raised(built)) =>
              /\ output' = [t |-> "raise", exc |-> "SagemakerStepException",
                            step |-> Attr(validated.out, "name").v,
                            cause |-> built.exc]
              /\ steps' = validated.steps
              /\ ~DictHas(steps', Attr(validated.out, "name").v)
                    \/ (/\ DictHas(steps, Attr(validated.out, "name").v)
                        /\ DictGet(steps', Attr(validated.out, "name").v)
                              = DictGet(steps, Attr(validated.out, "name").v))
      ]_vars

\* the build of a model step has failed resolving its model class on a builder
\* that holds a step of the same name, and the failure left add_step wrapped
C8_Witness ==
    /\ input.op = "add_step"
    /\ input.sdk = "ok"
    /\ output.t = "raise"
    /\ output.exc = "SagemakerStepException"
    /\ output.cause = "ModuleNotFoundError"
    /\ output.step = input.name
    /\ DictHas(input.kwargs.v, "model_kwargs")
    /\ DictHas(steps, input.name)
    /\ DictGet(steps, input.name).cls = "FailStep"

----------------------------------------------------------------------------
(* validation and build of the step models with a mutually exclusive group *)

ExclusiveVariants == {v \in Variants : ExclusiveOptions(v) # <<>>}

\* what a configuration gives for an option: nothing, null, an empty value or a
\* value; the other keys are the required fields and what add_step adds
OptionValues(type) ==
    {PyNone}
    \cup CASE type = "dict" -> {EmptyDict, Under("k", PyInt(1))}
           [] type = "str" -> {PyStr(<<>>), PyStr(<<"j">>)}
           [] OTHER -> {EmptyDict, PyStr(<<"m">>)}

Absent == [t |-> "absent"]

WithOption(items, option, value) ==
    IF value = Absent THEN items ELSE Append(items, <<option, value>>)

ExclusiveConfigs(variant) ==
    LET opts == ExclusiveOptions(variant)
    IN {PyDict(BuilderKwargs(NewBuilder, <<"a">>,
                             WithOption(WithOption(RequiredFields(variant).v,
                                                   opts[1], first),
                                        opts[2], second))) :
          first \in {Absent} \cup OptionValues(FieldType(variant, opts[1])),
          second \in {Absent} \cup OptionValues(FieldType(variant, opts[2]))}

InitValidate ==
    /\ BuilderInit
    /\ input \in {[op |-> "model_validate", kwargs |-> k] :
                    k \in UNION {ExclusiveConfigs(v) : v \in ExclusiveVariants}}
    /\ output = Pending

\* StepModel.model_validate({"step": kwargs})
Validate ==
    /\ input.op = "model_validate"
    /\ output = Pending
    /\ output' = model_validate(input.kwargs)
    /\ UNCHANGED <<tables, settings, pipeline, service_calls, input, calls,
                   blueprint, tags, added, command>>

\* .build() on the validated model
BuildValidated(sdk) ==
    /\ input.op = "model_validate"
    /\ output.t = "model"
    /\ input' = [op |-> "build", kwargs |-> input.kwargs, sdk |-> sdk]
    /\ output' = StepModel_build(output, sdk)
    /\ UNCHANGED <<tables, settings, pipeline, service_calls, calls,
                   blueprint, tags, added, command>>

NextValidate ==
    \/ Validate
    \/ \E sdk \in SdkOutcomes : BuildValidated(sdk)

SpecValidate == InitValidate /\ [][NextValidate]_vars

\* the options of the configuration that are given and not null
NonNullOptions(kwargs) ==
    LET opts == ExclusiveOptions(TaggedModel(get_discriminator_value(kwargs).v))
    IN {i \in DOMAIN opts : DictHas(kwargs.v, opts[i]) /\ DictGet(kwargs.v, opts[i]).t # "none"}

\* C7: a model step, an EMR step and a check step validate if and only if
\* exactly one of their two options is not null; with both or neither the
\* validation raises, and build() never meets a model without exactly one option.
C7_MutuallyExclusive ==
    /\ (input.op = "model_validate" /\ output # Pending) =>
          IF Cardinality(NonNullOptions(input.kwargs)) = 1
          THEN output.t = "model"
          ELSE output = Raise("ValidationError")
    /\ input.op = "build" =>
          /\ Cardinality(NonNullOptions(input.kwargs)) = 1
          /\ Raised(output) => output.cause # "RuntimeError"

\* an EMR step with a cluster id and a cluster configuration has been refused
C7_Witness ==
    /\ input.op = "model_validate"
    /\ DictHas(input.kwargs.v, "emr_step_config_kwargs")
    /\ NonNullOptions(input.kwargs) = {1, 2}
    /\ output = Raise("ValidationError")

----------------------------------------------------------------------------
(* sagerender/builder/blueprint.py: PipelineBlueprint *)

\* a str that is a key of the root document or names a backend, kept whole
PyName(s) == [t |-> "name", v |-> s]

BlueprintError(cause) ==
    [t |-> "raise", exc |-> "PipelineBlueprintValidationError", cause |-> cause]

\* the first loop of validate, from the i-th of hiera_keys
hiera_keys == <<"backends", "context", "hierarchy">>

RECURSIVE ValidateKeys(_, _)
ValidateKeys(document, i) ==
    IF i > Len(hiera_keys) THEN PyNone
    ELSE IF ~DictHas(document, hiera_keys[i]) THEN BlueprintError("KeyError")
    ELSE IF DictGet(document, hiera_keys[i]).t # "list" THEN BlueprintError("AssertionError")
    ELSE ValidateKeys(document, i + 1)

\* the second loop of validate, over self.config["backends"]; a backend that
\* is a list or a mapping cannot be a key (TypeError)
RECURSIVE ValidateBackends(_, _)
ValidateBackends(document, backends) ==
    IF backends = <<>> THEN PyNone
    ELSE LET backend == Head(backends)
         IN IF backend.t \in {"list", "dict"} THEN Raise("TypeError")
            ELSE IF backend.t # "name" \/ ~DictHas(document, backend.v)
            THEN BlueprintError("KeyError")
            ELSE IF DictGet(document, backend.v).t # "dict"
            THEN BlueprintError("AssertionError")
            ELSE IF ~DictHas(DictGet(document, backend.v).v, "datadir")
            THEN BlueprintError("AssertionError")
            ELSE ValidateBackends(document, Tail(backends))

\* PipelineBlueprint.validate with only the loop over hiera_keys
validate_keys_only(document) == ValidateKeys(document.v, 1)

\* PipelineBlueprint.validate on the root document self.config
validate(document) ==
    LET keys == ValidateKeys(document.v, 1)
    IN IF Raised(keys) THEN keys
       ELSE ValidateBackends(document.v, DictGet(document.v, "backends").v)

\* the root documents: each of backends, context and hierarchy absent, not a
\* list or a list; the backends listed are y, z and context; the entries of y
\* and z are absent, not a mapping, a mapping without datadir or one with it
Datadir == Under("datadir", PyName("d"))

BackendLists ==
    {Absent, PyName("y"), PyList(<<>>), PyList(<<PyName("y")>>),
     PyList(<<PyName("y"), PyName("z")>>), PyList(<<PyName("context")>>)}

BackendEntries == {Absent, PyName("e"), EmptyDict, Datadir}

RootDocuments ==
    {PyDict(WithOption(WithOption(WithOption(WithOption(WithOption(<<>>,
                "backends", b), "context", c), "hierarchy", h), "y", y), "z", z)) :
        b \in BackendLists,
        c \in {Absent, PyName("c"), PyList(<<>>)},
        h \in {Absent, PyName("h"), PyList(<<PyName("p")>>)},
        y \in BackendEntries,
        z \in BackendEntries}

\* no blueprint has been constructed; the file holds a root document
InitBlueprint ==
    /\ BuilderInit
    /\ input \in {[op |-> "PipelineBlueprint", document |-> d] : d \in RootDocuments}
    /\ output = Pending

\* PipelineBlueprint.__new__: the class makes an object only while it holds none
\* (objects are numbered as they are made)
Blueprint_new(cls_instance) == IF cls_instance = 0 THEN 1 ELSE cls_instance

\* PipelineBlueprint(): __new__ gives the instance, __init__ loads the file into
\* self.config, sets self.context = {} and validates
PipelineBlueprint(document) ==
    /\ instance' = Blueprint_new(instance)
    /\ config' = document
    /\ context' = <<>>
    /\ output' = validate(document)

NewBlueprint ==
    /\ input.op = "PipelineBlueprint"
    /\ output = Pending
    /\ PipelineBlueprint(input.document)
    /\ UNCHANGED <<tables, settings, pipeline, service_calls, input, calls, tags,
                   added, command>>

NextBlueprint == NewBlueprint

SpecBlueprint == InitBlueprint /\ [][NextBlueprint]_vars

\* the backends a root document lists
ListedBackends(d) ==
    IF DictHas(d.v, "backends") /\ DictGet(d.v, "backends").t = "list"
    THEN {DictGet(d.v, "backends").v[i].v : i \in DOMAIN DictGet(d.v, "backends").v}
    ELSE {}

\* C10: constructing a PipelineBlueprint raises PipelineBlueprintValidationError
\* if and only if the root document lacks backends, context or hierarchy, or one
\* of them is not a list, or a backend it lists has no entry, an entry that is
\* not a mapping or an entry without datadir; otherwise the construction
\* succeeds.  The construction itself decides this.
C10_BlueprintValidation ==
    (input.op = "PipelineBlueprint" /\ output # Pending) =>
        LET d == input.document
            broken ==
                \/ \E key \in {"backends", "context", "hierarchy"} :
                      ~DictHas(d.v, key) \/ DictGet(d.v, key).t # "list"
                \/ \E b \in ListedBackends(d) :
                      \/ ~DictHas(d.v, b)
                      \/ DictGet(d.v, b).t # "dict"
                      \/ ~DictHas(DictGet(d.v, b).v, "datadir")
        IN /\ broken => (Raised(output) /\ output.exc = "PipelineBlueprintValidationError")
           /\ ~broken => output = PyNone

\* a root document with its three lists whose second backend has a mapping
\* without datadir has been refused
C10_Witness ==
    /\ input.op = "PipelineBlueprint"
    /\ ListedBackends(input.document) = {"y", "z"}
    /\ DictGetOr(input.document.v, "context", PyNone).t = "list"
    /\ DictGetOr(input.document.v, "hierarchy", PyNone).t = "list"
    /\ DictGetOr(input.document.v, "y", PyNone) = Datadir
    /\ DictGetOr(input.document.v, "z", PyNone) = EmptyDict
    /\ output = BlueprintError("AssertionError")

----------------------------------------------------------------------------
(* get_discriminator_value on every set of top-level keys *)

\* the top-level keys of the configurations: the step type keys and one other
DiscriminatorKeyOrder ==
    <<"name", "automl_kwargs", "check_job_config_kwargs", "conditions",
      "emr_step_config_kwargs", "error_message", "estimator_kwargs",
      "lambda_func_kwargs", "model_kwargs", "notebook_job_kwargs",
      "processor_kwargs", "sqs_queue_url", "transformer_kwargs", "tuner_kwargs">>

ConfigWithKeys(keys) ==
    PyDict([i \in DOMAIN SelectSeq(DiscriminatorKeyOrder, LAMBDA k : k \in keys) |->
              <<SelectSeq(DiscriminatorKeyOrder, LAMBDA k : k \in keys)[i], EmptyDict>>])

InitDiscriminator ==
    /\ BuilderInit
    /\ input \in {[op |-> "get_discriminator_value", v |-> ConfigWithKeys(keys)] :
                    keys \in SUBSET {DiscriminatorKeyOrder[i] : i \in DOMAIN DiscriminatorKeyOrder}}
    /\ output = Pending

Discriminate ==
    /\ input.op = "get_discriminator_value"
    /\ output = Pending
    /\ output' = get_discriminator_value(input.v)
    /\ UNCHANGED <<tables, settings, pipeline, service_calls, input, calls,
                   blueprint, tags, added, command>>

NextDiscriminator == Discriminate

SpecDiscriminator == InitDiscriminator /\ [][NextDiscriminator]_vars

\* C1: with M the step type keys among the top-level keys of a configuration,
\* get_discriminator_value returns the one key of M when M has one key, returns
\* tuner_kwargs when M is {estimator_kwargs, tuner_kwargs}, and raises ValueError
\* for every other M; the training model is selected only by M = {estimator_kwargs}.
C1_Discriminator ==
    (input.op = "get_discriminator_value" /\ output # Pending) =>
        LET M == {k \in DictKeys(input.v.v) : k \in step_types}
        IN /\ \A k \in M : M = {k} => output = Tag(k)
           /\ M = {"estimator_kwargs", "tuner_kwargs"} => output = Tag("tuner_kwargs")
           /\ ((\A k \in M : M # {k}) /\ M # {"estimator_kwargs", "tuner_kwargs"})
                 => output = Raise("ValueError")
           /\ (output.t = "tag" /\ TaggedModel(output.v) = "TrainingStepModel")
                 <=> M = {"estimator_kwargs"}
           /\ (output.t = "tag" /\ TaggedModel(output.v) = "TuningStepModel")
                 <=> M \in {{"tuner_kwargs"}, {"estimator_kwargs", "tuner_kwargs"}}

\* a configuration with estimator_kwargs, tuner_kwargs and a third step type key
\* has been refused
C1_Witness ==
    /\ input.op = "get_discriminator_value"
    /\ output = Raise("ValueError")
    /\ {"estimator_kwargs", "tuner_kwargs", "processor_kwargs"} \subseteq DictKeys(input.v.v)

----------------------------------------------------------------------------
(* sagerender/builder/blueprint.py: the context of the blueprint *)

\* set_context(key: str, value: str): self.context[key] = value
set_context_kv(ctx, key, value) == DictSet(ctx, key, value)

\* set_context(context: dict) that replaces the context it holds
set_context_dict_replace(ctx, other) == other

\* set_context(context: dict): self.context.update(context)
set_context_dict(ctx, other) == DictUpdate(ctx, other)

ContextKeys == {"env", "team", "region"}
ContextValues == {"dev", "prod"}

\* the dicts given to set_context: up to two pairs over the keys, in each order
ContextDicts ==
    {<<>>}
    \cup {<<<<k, v>>>> : k \in ContextKeys, v \in ContextValues}
    \cup {m \in {<<<<k1, v1>>, <<k2, v2>>>> :
                    k1 \in ContextKeys, k2 \in ContextKeys,
                    v1 \in ContextValues, v2 \in ContextValues} : m[1][1] # m[2][1]}

\* a root document that validates, and one that lacks its hierarchy
ValidDocument ==
    PyDict(<<<<"backends", PyList(<<PyName("y")>>)>>, <<"context", PyList(<<>>)>>,
             <<"hierarchy", PyList(<<PyName("p")>>)>>, <<"y", Datadir>>>>)

ContextDocuments ==
    {ValidDocument,
     PyDict(<<<<"backends", PyList(<<>>)>>, <<"context", PyList(<<>>)>>>>)}

InitContext ==
    /\ BuilderInit
    /\ input \in {[op |-> "PipelineBlueprint", document |-> d] : d \in ContextDocuments}
    /\ output = Pending

\* PipelineBlueprint() once more, on the same file
NewBlueprintAgain ==
    /\ instance # 0
    /\ PipelineBlueprint(config)
    /\ input' = [op |-> "PipelineBlueprint", document |-> config, again |-> TRUE]
    /\ UNCHANGED <<tables, settings, pipeline, service_calls, calls, tags, added,
                   command>>

\* the caller holds the blueprint: its construction returned
Constructed == instance # 0 /\ ~Raised(validate(config))

SetContextKV(key, value) ==
    /\ Constructed
    /\ context' = set_context_kv(context, key, value)
    /\ input' = [op |-> "set_context", dispatch |-> "str, str", key |-> key,
                 value |-> value]
    /\ output' = PyNone
    /\ UNCHANGED <<tables, settings, pipeline, service_calls, calls, tags, added,
                   config, instance, command>>

SetContextDict(other) ==
    /\ Constructed
    /\ context' = set_context_dict(context, other)
    /\ input' = [op |-> "set_context", dispatch |-> "dict", context |-> other]
    /\ output' = PyNone
    /\ UNCHANGED <<tables, settings, pipeline, service_calls, calls, tags, added,
                   config, instance, command>>

NextContext ==
    \/ NewBlueprint
    \/ NewBlueprintAgain
    \/ \E k \in ContextKeys, v \in ContextValues : SetContextKV(k, v)
    \/ \E m \in ContextDicts : SetContextDict(m)

SpecContext == InitContext /\ [][NextContext]_vars

\* the value a dict holds for a key, "" for a key it does not hold
Lookup(d, k) == IF DictHas(d, k) THEN DictGet(d, k) ELSE ""

SameMapping(d, e) ==
    /\ DictKeys(d) = DictKeys(e)
    /\ \A k \in DictKeys(d) : DictGet(d, k) = DictGet(e, k)

\* set_context(key, value) for each pair of a sequence of pairs, in its order
RECURSIVE SetEach(_, _)
SetEach(ctx, pairs) ==
    IF pairs = <<>> THEN ctx
    ELSE SetEach(set_context_kv(ctx, pairs[1][1], pairs[1][2]), Tail(pairs))

\* C11: a set_context call leaves every key of the context in it, gives the keys
\* it sets the values of the call and leaves the other keys their values (so
\* each key holds the value of the last call that set it); set_context(map)
\* gives the same mapping as set_context(key, value) for the pairs of the map
\* taken in any order.
C11_SetContext ==
    [][input'.op = "set_context" =>
         /\ DictKeys(context) \subseteq DictKeys(context')
         /\ input'.dispatch = "str, str" =>
              /\ Lookup(context', input'.key) = input'.value
              /\ \A k \in DictKeys(context') \ {input'.key} :
                    DictHas(context, k) /\ Lookup(context', k) = Lookup(context, k)
         /\ input'.dispatch = "dict" =>
              /\ \A k \in DictKeys(input'.context) :
                    Lookup(context', k) = Lookup(input'.context, k)
              /\ \A k \in DictKeys(context') \ DictKeys(input'.context) :
                    DictHas(context, k) /\ Lookup(context', k) = Lookup(context, k)
              /\ \A f \in Permutations(DOMAIN input'.context) :
                    SameMapping(context',
                                SetEach(context, [i \in DOMAIN input'.context |->
                                                    input'.context[f[i]]]))
    ]_vars

\* set_context({"env": "prod"}) was called on a context that held team: the
\* context holds both keys
C11_Witness ==
    /\ input.op = "set_context"
    /\ input.dispatch = "dict"
    /\ input.context = <<<<"env", "prod">>>>
    /\ context = <<<<"team", "dev">>, <<"env", "prod">>>>

\* C20: PipelineBlueprint() always gives the one instance the class made first,
\* and constructing it again leaves the context of that instance as it was.
C20_Singleton ==
    [][(instance # 0 /\ input'.op = "PipelineBlueprint") =>
          (instance' = instance /\ context' = context)]_vars

----------------------------------------------------------------------------
(* sagerender/utilities/common.py: env_vars_constructor *)

ENV_OPEN == <<"$", "{">>
ENV_CLOSE == <<"}">>

\* PATTERN_ENV_VARS.findall(value) for r".*?\${(.*?)}.*?" on a scalar of one
\* line: from the end of the last match the lazy prefix reaches the next "${",
\* the group is the text up to the first "}" after it, and the lazy suffix is
\* empty; an "${" with no "}" after it ends the search
RECURSIVE findall(_)
findall(value) ==
    LET open == Find(value, ENV_OPEN)
        after == SubSeq(value, open + Len(ENV_OPEN), Len(value))
        close == Find(after, ENV_CLOSE)
    IN IF open = 0 \/ close = 0 THEN <<>>
       ELSE <<SubSeq(after, 1, close - 1)>>
            \o findall(SubSeq(after, close + Len(ENV_CLOSE), Len(after)))

\* for group in groups: value = value.replace(f"${{{group}}}",
\*                                            os.environ.get(group, group))
RECURSIVE ReplaceGroups(_, _, _)
ReplaceGroups(value, groups, environ) ==
    IF groups = <<>> THEN value
    ELSE ReplaceGroups(Replace(value, ENV_OPEN \o Head(groups) \o ENV_CLOSE,
                               DictGetOr(environ, Head(groups), Head(groups))),
                       Tail(groups), environ)

\* env_vars_constructor(loader, node): value is loader.construct_scalar(node)
env_vars_constructor(value, environ) == ReplaceGroups(value, findall(value), environ)

MaxValueLen == 5   \* characters in a loaded scalar

EnvAlphabet == {"$", "{", "}", "A", "B"}

RECURSIVE EnvWords(_)
EnvWords(n) ==
    IF n = 0 THEN {<<>>}
    ELSE EnvWords(n - 1) \cup {Append(w, c) : w \in EnvWords(n - 1), c \in EnvAlphabet}

\* the process environment: nothing set, or A set
Environments == {<<>>, <<<<<<"A">>, <<"v">>>>>>}

InitEnv ==
    /\ BuilderInit
    /\ input \in {[op |-> "env_vars_constructor", value |-> w, environ |-> e] :
                    w \in EnvWords(MaxValueLen), e \in Environments}
    /\ output = Pending

EnvVarsConstructor ==
    /\ input.op = "env_vars_constructor"
    /\ output = Pending
    /\ output' = PyStr(env_vars_constructor(input.value, input.environ))
    /\ UNCHANGED <<tables, settings, pipeline, service_calls, input, calls, blueprint,
                   tags, added, command>>

NextEnv == EnvVarsConstructor

SpecEnv == InitEnv /\ [][NextEnv]_vars

\* the names of variables: letters
IsEnvName(w) == w # <<>> /\ \A i \in DOMAIN w : w[i] \in {"A", "B"}

\* C13: a placeholder ${NAME} of the loaded scalar whose NAME is not set in the
\* environment is still in the resolved string, as written.
C13_UnsetPlaceholderKept ==
    (input.op = "env_vars_constructor" /\ output # Pending) =>
        \A i \in DOMAIN findall(input.value) :
            LET NAME == findall(input.value)[i]
            IN (IsEnvName(NAME) /\ ~DictHas(input.environ, NAME))
                   => Contains(output.v, ENV_OPEN \o NAME \o ENV_CLOSE)

----------------------------------------------------------------------------
(* build() after parameters, steps and condition steps were added *)

PipelineParameterNames == {<<"x">>, <<"y">>}

\* fail steps, and condition steps that take a or s into a branch, named c or
\* named by the call
PipelineConfigs ==
    {FailConfig(PyStr(<<"m">>)),
     Named(<<"c">>, ConditionConfig(<<PyStr(<<"a">>)>>, <<>>)),
     ConditionConfig(<<PyStr(<<"a">>)>>, <<>>),
     ConditionConfig(<<>>, <<PyStr(<<"s">>)>>)}

NextPipeline ==
    \/ \E p \in PipelineParameterNames : AddParameter(p)
    \/ \E n \in StepNames, k \in PipelineConfigs : AddStep(n, k, "ok")
    \/ \E sdk \in SdkOutcomes : Build(sdk)

SpecPipeline == Init /\ [][NextPipeline]_vars

\* a sequence without the later occurrences of its elements
RECURSIVE FirstOccurrences(_)
FirstOccurrences(xs) ==
    IF xs = <<>> THEN <<>>
    ELSE LET front == FirstOccurrences(SubSeq(xs, 1, Len(xs) - 1))
             last == xs[Len(xs)]
         IN IF \E i \in DOMAIN front : front[i] = last THEN front
            ELSE Append(front, last)

\* the step names in the order in which add_step first stored them
FirstInserted == FirstOccurrences([i \in DOMAIN added |-> added[i].step])

\* the names of the steps a condition step holds in its branches
BranchStepNames(step) ==
    IF step.cls # "ConditionStep" THEN {}
    ELSE {DictGet(step.args, "if_steps").v[i].name :
            i \in DOMAIN DictGet(step.args, "if_steps").v}
         \cup {DictGet(step.args, "else_steps").v[i].name :
                 i \in DOMAIN DictGet(step.args, "else_steps").v}

\* C14: build() gives a pipeline whose steps are the steps of the step table,
\* one per name, in the order in which their names were first inserted, with no
\* step of a branch among them, and whose parameters are those of the
\* parameter table in the order of its names; add_parameter keeps the names in
\* the order in which they were first added.
C14_BuildOrder ==
    [][/\ input'.op = "add_parameter" =>
            DictKeyList(parameters')
              = IF DictHas(parameters, input'.parameter) THEN DictKeyList(parameters)
                ELSE Append(DictKeyList(parameters), input'.parameter)
       /\ (input'.op = "build" /\ ~Raised(output')) =>
            LET built == pipeline'.steps
                names == [i \in DOMAIN built |-> built[i].name]
            IN /\ built = DictValues(steps)
               /\ \A i, j \in DOMAIN names : names[i] = names[j] => i = j
               /\ names = SelectSeq(FirstInserted, LAMBDA n : DictHas(steps, n))
               /\ \A i, j \in DOMAIN built : names[i] \notin BranchStepNames(built[j])
               /\ pipeline'.parameters = DictValues(parameters)
      ]_vars

----------------------------------------------------------------------------
(* sagerender/builder/pipeline.py: the calls that add several items *)

\* add_parameters(parameters): add_parameter for each name, in order
RECURSIVE add_parameters(_, _)
add_parameters(table, names) ==
    IF names = <<>> THEN table
    ELSE add_parameters(DictSet(table, Head(names), NewParameter(Head(names))),
                        Tail(names))

\* add_property_files(property_files): add_property_file for each name, in order
RECURSIVE add_property_files(_, _)
add_property_files(table, names) ==
    IF names = <<>> THEN table
    ELSE add_property_files(DictSet(table, Head(names), NewPropertyFile(Head(names))),
                            Tail(names))

\* add_tags(tags): self.tags.append(tag) for each tag
add_tags(list, given) == PyList(list.v \o given)

\* add_security_group_ids(ids): self.security_group_ids.append(id) for each id
add_security_group_ids(list, given) == PyList(list.v \o given)

\* add_subnets(subnets): self.subnets.append(subnet) for each subnet
add_subnets(list, given) == PyList(list.v \o given)

\* the sequences without repetition of up to two elements of a set
UpToTwo(S) ==
    {<<>>} \cup {<<x>> : x \in S} \cup {q \in {<<x, y>> : x \in S, y \in S} : q[1] # q[2]}

AddParameters(names) ==
    /\ parameters' = add_parameters(parameters, names)
    /\ input' = [op |-> "add_parameters", given |-> names]
    /\ output' = PyNone
    /\ UNCHANGED <<property_files, steps, settings, pipeline, service_calls, calls,
                   blueprint, tags, added, command>>

AddPropertyFiles(names) ==
    /\ property_files' = add_property_files(property_files, names)
    /\ input' = [op |-> "add_property_files", given |-> names]
    /\ output' = PyNone
    /\ UNCHANGED <<parameters, steps, settings, pipeline, service_calls, calls,
                   blueprint, tags, added, command>>

AddTags(given) ==
    /\ Len(tags.v) + Len(given) <= MaxIds
    /\ tags' = add_tags(tags, given)
    /\ input' = [op |-> "add_tags", given |-> given]
    /\ output' = PyNone
    /\ UNCHANGED <<tables, settings, pipeline, service_calls, calls, blueprint, added,
                   command>>

AddSecurityGroupIds(given) ==
    /\ Len(security_group_ids.v) + Len(given) <= MaxIds
    /\ security_group_ids' = add_security_group_ids(security_group_ids, given)
    /\ input' = [op |-> "add_security_group_ids", given |-> given]
    /\ output' = PyNone
    /\ UNCHANGED <<tables, role_arn, sagemaker_session, subnets, pipeline,
                   service_calls, calls, blueprint, tags, added, command>>

AddSubnets(given) ==
    /\ Len(subnets.v) + Len(given) <= MaxIds
    /\ subnets' = add_subnets(subnets, given)
    /\ input' = [op |-> "add_subnets", given |-> given]
    /\ output' = PyNone
    /\ UNCHANGED <<tables, role_arn, sagemaker_session, security_group_ids, pipeline,
                   service_calls, calls, blueprint, tags, added, command>>

TagValues == {PyName("t")}
IdValues == {PyStr(<<"g">>), PyStr(<<"h">>)}

NextAdditive ==
    \/ \E names \in UpToTwo(PipelineParameterNames) : AddParameters(names)
    \/ \E names \in UpToTwo(PropertyFileNames) : AddPropertyFiles(names)
    \/ \E given \in UpToTwo(TagValues) : AddTags(given)
    \/ \E given \in UpToTwo(IdValues) : AddSecurityGroupIds(given)
    \/ \E given \in UpToTwo(IdValues) : AddSubnets(given)
    \/ AddSecurityGroupId(PyStr(<<"g">>))
    \/ AddSubnet(PyStr(<<"g">>))

SpecAdditive == Init /\ [][NextAdditive]_vars

AdditiveCalls ==
    {"add_parameters", "add_property_files", "add_tags", "add_security_group_ids",
     "add_subnets"}

\* C16: an additive call made a second time with the same argument leaves the
\* parameters, property files, tags, security group ids and subnets as the
\* first call left them.
C16_Idempotent ==
    [][(input.op \in AdditiveCalls /\ input'.op = input.op /\ input'.given = input.given)
          => UNCHANGED <<parameters, property_files, tags, security_group_ids, subnets>>
      ]_vars


----------------------------------------------------------------------------
(* sagerender/cli/upsert_pipeline.py: main *)

CERBERUS == "cerberus"
RESOURCE_CONFIG == "resource_config"
PIPELINE_SESSION_BUCKET == "session_bucket"
TAGS == "tags"

\* the keys of a pipeline document that add_steps passes over
SkippedByAddSteps ==
    {"name", "parameters", "max_parallel_execution_steps", "property_files",
     "use_custom_job_prefix", "pipeline_experiment_config"}

\* add_steps(steps): add_step for every entry but the skipped keys, in order;
\* the first add_step that raises ends the loop
RECURSIVE add_steps(_, _, _)
add_steps(self, document, sdk) ==
    IF document = <<>> THEN [steps |-> self.steps, out |-> PyNone]
    ELSE IF Head(document)[1] \in SkippedByAddSteps
         THEN add_steps(self, Tail(document), sdk)
         ELSE LET Rest(r) ==
                      IF Raised(r.out) THEN r
                      ELSE add_steps([self EXCEPT !.steps = r.steps], Tail(document), sdk)
              IN Rest(add_step(self, Head(document)[1], Head(document)[2], sdk))

\* what a lookup in the hierarchy gives: the value, None for a missing key
\* looked up with throw_error_on_missing_key=False, or an exception of phiera
Lookups == {"value", "none", "raise"}

\* the resource configuration, from the secrets or from the hierarchy
ResourceCfg ==
    [execution_role |-> PyStr(<<"r">>),
     security_group_ids |-> PyList(<<PyStr(<<"g">>)>>),
     subnets |-> PyList(<<PyStr(<<"h">>)>>)]

\* the documents found under the pipeline name: no step, one step, one step
\* whose configuration matches no variant
PipelineDocuments ==
    {<<>>,
     <<<<"name", PyStr(<<"p">>)>>, <<<<"a">>, FailConfig(PyStr(<<"m">>))>>>>,
     <<<<<<"a">>, PyDict(<<<<"unknown", PyNone>>>>)>>>>}

\* others[i] -> others[i + 1], as a dict: up to two pairs
MainContexts ==
    {<<>>, <<<<"env", "dev">>>>, <<<<"env", "prod">>, <<"team", "dev">>>>}

\* the arguments of the command
MainArgs ==
    {[op |-> "main", dry_run |-> d, local |-> l, context |-> c] :
        d \in BOOLEAN, l \in BOOLEAN, c \in MainContexts}

InitMain ==
    /\ BuilderInit
    /\ input \in MainArgs
    /\ output = Pending

\* one call made by main, with what it was given and how it ended
Call(name, key, ok) == [call |-> name, key |-> key, ok |-> ok]

\* the calls of the trace with a name
Calls(name) == {i \in DOMAIN trace : trace[i].call = name}

\* the loop `for key, value in context.items()` has set this many keys
ContextSet == Cardinality(Calls("set_context"))

\* main leaves through an exception
MainRaises(name, key, exception) ==
    /\ pc' = "raised"
    /\ trace' = Append(trace, Call(name, key, FALSE))
    /\ output' = Raise(exception)

\* main goes on to its next statement
MainGoes(name, key, next) ==
    /\ pc' = next
    /\ trace' = Append(trace, Call(name, key, TRUE))
    /\ output' = PyNone

\* pipeline_blueprint = PipelineBlueprint()
MainBlueprint ==
    /\ pc = "idle"
    /\ input.op = "main"
    /\ PipelineBlueprint(ValidDocument)
    /\ pc' = "set_context"
    /\ trace' = Append(trace, Call("PipelineBlueprint", "", TRUE))
    /\ UNCHANGED <<locator, tables, settings, pipeline, service_calls, input, calls, tags,
                   added>>

\* pipeline_blueprint.set_context(key, value), once for each item of context
MainSetContext ==
    /\ pc = "set_context"
    /\ ContextSet < Len(input.context)
    /\ context' = set_context_kv(context, input.context[ContextSet + 1][1],
                                 input.context[ContextSet + 1][2])
    /\ MainGoes("set_context", input.context[ContextSet + 1][1], "set_context")
    /\ UNCHANGED <<locator, tables, settings, pipeline, service_calls, input, calls, tags,
                   added, config, instance>>

\* pipeline_blueprint.create(), when the loop is over
MainCreate(hiera) ==
    /\ pc = "set_context"
    /\ ContextSet = Len(input.context)
    /\ IF hiera = "ok" THEN MainGoes("create", "", "cerberus")
       ELSE MainRaises("create", "", hiera)
    /\ UNCHANGED <<locator, tables, settings, pipeline, service_calls, input, calls, tags,
                   added, blueprint>>

\* get_resource_config(cerberus_cfg=get_definition(CERBERUS, False)): None for
\* no configuration, else the secrets, if they can be fetched
MainCerberus(lookup, secrets) ==
    /\ pc = "cerberus"
    /\ IF lookup = "raise" THEN MainRaises("get_definition", CERBERUS, "Exception")
       ELSE IF lookup = "none" THEN MainGoes("get_definition", CERBERUS, "resource_config")
       ELSE IF secrets = "ok" THEN MainGoes("get_definition", CERBERUS, "session_bucket")
       ELSE MainRaises("get_definition", CERBERUS, secrets)
    /\ UNCHANGED <<locator, tables, settings, pipeline, service_calls, input, calls, tags,
                   added, blueprint>>

\* ... or get_definition(RESOURCE_CONFIG, False), then the assert
MainResourceConfig(lookup) ==
    /\ pc = "resource_config"
    /\ IF lookup = "raise" THEN MainRaises("get_definition", RESOURCE_CONFIG, "Exception")
       ELSE IF lookup = "none"
            THEN /\ pc' = "raised"
                 /\ trace' = Append(trace, Call("get_definition", RESOURCE_CONFIG, TRUE))
                 /\ output' = Raise("AssertionError")
       ELSE MainGoes("get_definition", RESOURCE_CONFIG, "session_bucket")
    /\ UNCHANGED <<locator, tables, settings, pipeline, service_calls, input, calls, tags,
                   added, blueprint>>

\* session_bucket = get_definition(PIPELINE_SESSION_BUCKET)
MainSessionBucket(lookup) ==
    /\ pc = "session_bucket"
    /\ IF lookup = "value" THEN MainGoes("get_definition", PIPELINE_SESSION_BUCKET, "session")
       ELSE MainRaises("get_definition", PIPELINE_SESSION_BUCKET, "Exception")
    /\ UNCHANGED <<locator, tables, settings, pipeline, service_calls, input, calls, tags,
                   added, blueprint>>

\* the session main makes: LocalPipelineSession with --local, else PipelineSession
SessionOf(args) == IF args.local THEN "LocalPipelineSession" ELSE "PipelineSession"

\* sagemaker_session = PipelineSession(...) or LocalPipelineSession(...)
MainSession(sdk) ==
    /\ pc = "session"
    /\ IF sdk = "ok" THEN MainGoes(SessionOf(input), "", "pipeline_steps")
       ELSE MainRaises(SessionOf(input), "", sdk)
    /\ UNCHANGED <<locator, tables, settings, pipeline, service_calls, input, calls, tags,
                   added, blueprint>>

\* pipeline_steps = get_definition(args.pipeline_name)
MainPipelineSteps(lookup) ==
    /\ pc = "pipeline_steps"
    /\ IF lookup = "value" THEN MainGoes("get_definition", "pipeline_name", "assemble")
       ELSE MainRaises("get_definition", "pipeline_name", "Exception")
    /\ UNCHANGED <<locator, tables, settings, pipeline, service_calls, input, calls, tags,
                   added, blueprint>>

\* PipelineBuilder().set_name(...) ... .add_steps(pipeline_steps): the settings
\* come from resource_cfg and the session, the steps from the document
MainAssemble(document) ==
    LET Assembled(r) ==
            /\ steps' = r.steps
            /\ IF Raised(r.out)
               THEN /\ pc' = "raised"
                    /\ trace' = Append(trace, Call("add_steps", "", FALSE))
                    /\ output' = r.out
               ELSE MainGoes("add_steps", "", "add_tags")
    IN /\ pc = "assemble"
       /\ role_arn' = ResourceCfg.execution_role
       /\ sagemaker_session' = PyName(SessionOf(input))
       /\ security_group_ids' = add_security_group_ids(security_group_ids,
                                                       ResourceCfg.security_group_ids.v)
       /\ subnets' = add_subnets(subnets, ResourceCfg.subnets.v)
       /\ Assembled(add_steps([Self EXCEPT !.role_arn = ResourceCfg.execution_role,
                                          !.sagemaker_session = PyName(SessionOf(input)),
                                          !.security_group_ids =
                                              add_security_group_ids(security_group_ids,
                                                  ResourceCfg.security_group_ids.v),
                                          !.subnets =
                                              add_subnets(subnets, ResourceCfg.subnets.v)],
                              document, "ok"))
       /\ UNCHANGED <<locator, parameters, property_files, pipeline, service_calls, input, calls,
                      tags, added, blueprint>>

\* .add_tags(get_definition(TAGS)): the lookup runs once add_steps has returned
MainAddTags(lookup) ==
    /\ pc = "add_tags"
    /\ IF lookup = "value"
       THEN /\ tags' = add_tags(tags, <<PyName("t")>>)
            /\ MainGoes("get_definition", TAGS, "build")
       ELSE /\ UNCHANGED tags
            /\ MainRaises("get_definition", TAGS, "Exception")
    /\ UNCHANGED <<locator, tables, settings, pipeline, service_calls, input, calls,
                   added, blueprint>>

\* .build()
MainBuild(sdk) ==
    /\ pc = "build"
    /\ IF sdk = "ok"
       THEN /\ pipeline' = NewPipeline(Self)
            /\ MainGoes("build", "", IF input.dry_run THEN "definition" ELSE "upsert")
       ELSE /\ UNCHANGED pipeline
            /\ MainRaises("build", "", sdk)
    /\ UNCHANGED <<locator, tables, settings, service_calls, input, calls, tags,
                   added, blueprint>>

\* a call of main on the built pipeline: the builder raises when it holds no
\* pipeline, sagemaker may raise, else the call reaches the service
MainPipelineCall(at, name, method, sdk, next) ==
    /\ pc = at
    /\ IF pipeline.t = "none"
       THEN /\ MainRaises(name, "", "PipelineNotFoundError")
            /\ UNCHANGED service_calls
       ELSE IF sdk = "ok"
            THEN /\ MainGoes(name, "", next)
                 /\ service_calls' = service_calls \cup {method}
            ELSE /\ MainRaises(name, "", sdk)
                 /\ UNCHANGED service_calls
    /\ UNCHANGED <<locator, tables, settings, pipeline, input, calls, tags, added, blueprint>>

\* if args.dry_run: pipeline.definition() is logged, and main goes on to upsert
MainDefinition_no_return(sdk) ==
    MainPipelineCall("definition", "definition", "definition", sdk, "upsert")

\* if args.dry_run: pipeline.definition() is logged, and main returns
MainDefinition(sdk) ==
    MainPipelineCall("definition", "definition", "definition", sdk, "done")

\* pipeline.upsert()
MainUpsert(sdk) ==
    MainPipelineCall("upsert", "upsert", "upsert", sdk,
                     IF input.local THEN "run" ELSE "done")

\* if args.local: pipeline.run()
MainRun(sdk) == MainPipelineCall("run", "run", "start", sdk, "done")

NextMain ==
    \/ MainBlueprint
    \/ MainSetContext
    \/ \E hiera \in {"ok", "Exception"} : MainCreate(hiera)
    \/ \E lookup \in Lookups, secrets \in {"ok", "Exception"} : MainCerberus(lookup, secrets)
    \/ \E lookup \in Lookups : MainResourceConfig(lookup)
    \/ \E lookup \in Lookups : MainSessionBucket(lookup)
    \/ \E sdk \in {"ok", "Exception"} : MainSession(sdk)
    \/ \E lookup \in Lookups : MainPipelineSteps(lookup)
    \/ \E document \in PipelineDocuments : MainAssemble(document)
    \/ \E lookup \in Lookups : MainAddTags(lookup)
    \/ \E sdk \in {"ok", "Exception"} : MainBuild(sdk)
    \/ \E sdk \in {"ok", "Exception"} : MainDefinition(sdk)
    \/ \E sdk \in {"ok", "Exception"} : MainUpsert(sdk)
    \/ \E sdk \in {"ok", "Exception"} : MainRun(sdk)

SpecMain == InitMain /\ [][NextMain]_vars

\* the calls of the trace with a name that returned
ReturnedCalls(name) == {i \in Calls(name) : trace[i].ok}

\* every call of the first name comes before every call of the second
Precede(first, second) ==
    \A i \in Calls(first), j \in Calls(second) : i < j

\* every call of the second name comes after a call of the first that returned
OnlyAfter(first, second) ==
    \A j \in Calls(second) : \E i \in ReturnedCalls(first) : i < j

\* C15: with --dry-run a main that returns has rendered the definition, and
\* upsert and run are never called; without it upsert is called at most once,
\* only after build() returned, and exactly once by the time main returns; run
\* is called only with --local and after upsert returned, and a main that
\* returns has called it if and only if --local was given. The context is set
\* before create(), and create() comes before every get_definition.
C15_Command ==
    input.op = "main" =>
        /\ input.dry_run =>
              /\ Calls("upsert") = {} /\ Calls("run") = {}
              /\ pc = "done" => ReturnedCalls("definition") # {}
        /\ ~input.dry_run =>
              /\ Cardinality(Calls("upsert")) <= 1
              /\ OnlyAfter("build", "upsert")
              /\ pc = "done" => Cardinality(ReturnedCalls("upsert")) = 1
              /\ Cardinality(Calls("run")) <= 1
              /\ Calls("run") # {} => input.local
              /\ OnlyAfter("upsert", "run")
              /\ pc = "done" => (ReturnedCalls("run") # {} <=> input.local)
        /\ Precede("set_context", "create")
        /\ pc \notin {"idle", "set_context"} =>
              /\ ContextSet = Len(input.context)
              /\ context = input.context
        /\ OnlyAfter("create", "get_definition")

\* main returned from a run with --local and a context of two keys: the
\* context was set, the pipeline upserted and run
C15_Witness ==
    /\ input.op = "main" /\ pc = "done"
    /\ ~input.dry_run /\ input.local
    /\ Cardinality(Calls("set_context")) = 2
    /\ ReturnedCalls("upsert") # {} /\ ReturnedCalls("run") # {}
    /\ service_calls = {"upsert", "start"}


----------------------------------------------------------------------------
(* sagerender/builder/pipeline.py: the order of the builder calls *)

\* the role, the session, the security groups and the subnets main supplies
SuppliedRole == PyStr(<<"r">>)
SuppliedSession == PyName("PipelineSession")
SuppliedIds == <<PyStr(<<"g">>)>>

\* step configurations whose steps carry the role and the network settings
OrderConfigs ==
    {RequiredConfig("NotebookJobStepModel"), RequiredConfig("ModelStepModel"),
     FailConfig(PyStr(<<"m">>))}

\* the role and the session are supplied once, at any point among the add_step
\* calls. add_step hands self.security_group_ids and self.subnets to the step
\* as the list objects themselves, so what a built step shows of a later
\* append is up to sagemaker: the lists are filled before the first add_step.
NextOrder ==
    \/ role_arn = PyNone /\ SetRoleArn(SuppliedRole)
    \/ sagemaker_session = PyNone /\ SetSagemakerSession(SuppliedSession)
    \/ security_group_ids.v = <<>> /\ calls = 0 /\ AddSecurityGroupIds(SuppliedIds)
    \/ subnets.v = <<>> /\ calls = 0 /\ AddSubnets(SuppliedIds)
    \/ \E n \in {<<"a">>, <<"b">>}, k \in OrderConfigs : AddStep(n, k, "ok")
    \/ pipeline = PyNone /\ Build("ok")

SpecOrder == Init /\ [][NextOrder]_vars

\* the step table after the add_step calls that stored a step are made again,
\* in their order, on a builder
RECURSIVE Replay(_, _)
Replay(self, stored) ==
    IF stored = <<>> THEN self.steps
    ELSE Replay([self EXCEPT !.steps = add_step(self, Head(stored).name,
                                                Head(stored).kwargs, "ok").steps],
                Tail(stored))

\* every setting has been supplied
AllSupplied ==
    /\ role_arn = SuppliedRole
    /\ sagemaker_session = SuppliedSession
    /\ security_group_ids.v = SuppliedIds
    /\ subnets.v = SuppliedIds

\* C17: a pipeline built once every setting is supplied holds the steps that
\* the same add_step calls give on a builder whose settings were supplied
\* first: the place of set_role_arn and set_sagemaker_session among the
\* add_step calls makes no difference to the role and the session the built
\* steps carry.
C17_OrderIndependent ==
    (input.op = "build" /\ pipeline.t = "Pipeline" /\ AllSupplied) =>
        pipeline.steps = DictValues(Replay([Self EXCEPT !.steps = <<>>], added))


----------------------------------------------------------------------------
(* sagerender/builder/step.py: the fields of BaseStepModel in the built step *)

\* the values given for cache_config, retry_policies and depends_on
TagFields == <<"cache_config", "retry_policies", "depends_on">>

GivenTag(field) ==
    CASE field = "cache_config" -> PyName("cache")
      [] field = "retry_policies" -> PyList(<<PyName("retry")>>)
      [] field = "depends_on" -> PyList(<<PyStr(<<"u">>)>>)

\* a configuration of every variant with each choice of the three fields, with
\* and without a name of its own
TaggedConfigs ==
    {PyDict(WithOption(WithOption(WithOption(WithOption(RequiredConfig(v).v,
                "name", n), "cache_config", c), "retry_policies", r), "depends_on", d)) :
        v \in Variants,
        n \in {Absent, PyStr(<<"n">>)},
        c \in {Absent, GivenTag("cache_config")},
        r \in {Absent, GivenTag("retry_policies")},
        d \in {Absent, GivenTag("depends_on")}}

\* add_step on a new builder
TagStep(kwargs) ==
    /\ calls = 0
    /\ AddStep(<<"a">>, kwargs, "ok")

NextTagged == \E k \in TaggedConfigs : TagStep(k)

SpecTagged == Init /\ [][NextTagged]_vars

\* the field is among the arguments of the step, with the value given
Carries(step, kwargs, field) ==
    DictHas(kwargs.v, field) =>
        /\ DictHas(step.args, field)
        /\ DictGet(step.args, field) = DictGet(kwargs.v, field)

\* C18: the step an add_step builds has the name of the configuration (the
\* name of the call when the configuration has none), and carries the
\* cache_config, the retry_policies and the depends_on the configuration gives.
C18_FieldsCarried ==
    (input.op = "add_step" /\ output.t = "step") =>
        /\ output.name = DictGetOr(input.kwargs.v, "name", PyStr(input.name)).v
        /\ \A i \in DOMAIN TagFields : Carries(output, input.kwargs, TagFields[i])


----------------------------------------------------------------------------
(* sagerender/builder/pipeline.py: add_step that raises *)

\* C19: an add_step that raises leaves the parameters, the property files and
\* the steps of the builder as they were before the call.
C19_FailedAddStep ==
    [][(IsAddStep /\ Raised(output')) => UNCHANGED tables]_vars


----------------------------------------------------------------------------
(* sagerender/builder/pipeline.py: the owner of a built step *)

\* a configuration with a description of its own: the number of the call that
\* gives it, which tells the step it builds from every other built step
Described(cfg, number) == PyDict(Append(cfg.v, <<"description", PyInt(number)>>))

OwnerNames == {<<"a">>, <<"c">>}

\* a fail step, and condition steps that name steps once, twice in one
\* branch, in both branches, and by their own name
OwnerConfigs ==
    {FailConfig(PyStr(<<"m">>)),
     ConditionConfig(<<PyStr(<<"a">>)>>, <<>>),
     ConditionConfig(<<PyStr(<<"a">>), PyStr(<<"a">>)>>, <<>>),
     ConditionConfig(<<PyStr(<<"a">>)>>, <<PyStr(<<"a">>)>>),
     ConditionConfig(<<PyStr(<<"a">>)>>, <<PyStr(<<"c">>)>>),
     ConditionConfig(<<>>, <<PyStr(<<"c">>)>>)}

NextOwner ==
    \E n \in OwnerNames, k \in OwnerConfigs : AddStep(n, Described(k, calls), "ok")

SpecOwner == Init /\ [][NextOwner]_vars

\* the steps a step holds in its branch lists
Branches(step) ==
    IF step.t = "step" /\ step.cls = "ConditionStep"
    THEN DictGet(step.args, "if_steps").v \o DictGet(step.args, "else_steps").v
    ELSE <<>>

\* every step of a list of steps and of their branches, at any depth, once
\* for each place it is held in
RECURSIVE Held(_)
Held(list) ==
    IF list = <<>> THEN <<>>
    ELSE <<Head(list)>> \o Held(Branches(Head(list))) \o Held(Tail(list))

\* the names a configuration lists in its branches, if_steps first
NamedInBranches(kwargs) ==
    (IF DictHas(kwargs.v, "if_steps") THEN DictGet(kwargs.v, "if_steps").v ELSE <<>>)
    \o (IF DictHas(kwargs.v, "else_steps") THEN DictGet(kwargs.v, "else_steps").v
        ELSE <<>>)

\* a list names something twice
Repeats(list) == \E i, j \in DOMAIN list : i < j /\ list[i] = list[j]

\* C21: every built step the builder holds is held in one place, the step table
\* or one branch list of one condition step, and an add_step whose branches
\* name a step twice, or a step that is not in the step table (one consumed
\* earlier), raises.
C21_OneOwner ==
    /\ [](~Repeats(Held(DictValues(steps))))
    /\ [][(IsAddStep /\ (\/ Repeats(NamedInBranches(input'.kwargs))
                         \/ \E i \in DOMAIN NamedInBranches(input'.kwargs) :
                               ~DictHas(steps, NamedInBranches(input'.kwargs)[i].v)))
            => Raised(output')]_vars

\* a step was consumed by a condition step, and an add_step that names the
\* consumed step again has raised
C21_Witness ==
    /\ input.op = "add_step"
    /\ output = Raise("KeyError")
    /\ Len(Held(DictValues(steps))) = 2
    /\ \E i \in DOMAIN steps :
          \E j \in DOMAIN Branches(steps[i][2]), k \in DOMAIN NamedInBranches(input.kwargs) :
             /\ NamedInBranches(input.kwargs)[k].v = Branches(steps[i][2])[j].name
             /\ ~DictHas(steps, Branches(steps[i][2])[j].name)


----------------------------------------------------------------------------
(* sagerender/builder/pipeline.py: depends_on and consumed steps *)

\* a fail step that depends on the steps of the names
DependsOn(names) ==
    PyDict(Append(FailConfig(PyStr(<<"m">>)).v, <<"depends_on", PyList(names)>>))

DependsConfigs ==
    {FailConfig(PyStr(<<"m">>)),
     ConditionConfig(<<PyStr(<<"a">>)>>, <<>>),
     DependsOn(<<PyStr(<<"a">>)>>),
     DependsOn(<<PyStr(<<"s">>)>>)}

NextDepends ==
    \E n \in {<<"a">>, <<"c">>, <<"s">>}, k \in DependsConfigs : AddStep(n, k, "ok")

SpecDepends == Init /\ [][NextDepends]_vars

\* the names of the steps held in the branches of the steps of a table
ConsumedNames(stepTable) ==
    {Held(DictValues(stepTable))[i].name : i \in DOMAIN Held(DictValues(stepTable))}
    \ DictKeys(stepTable)

\* C22: an add_step whose depends_on lists the name of a step that a condition
\* step has consumed raises.
C22_DependsOnConsumed ==
    [][(/\ IsAddStep
        /\ DictHas(input'.kwargs.v, "depends_on")
        /\ \E i \in DOMAIN DictGet(input'.kwargs.v, "depends_on").v :
              DictGet(input'.kwargs.v, "depends_on").v[i].v \in ConsumedNames(steps))
         => Raised(output')]_vars


----------------------------------------------------------------------------
(* sagerender/builder/pipeline.py: a factory mapping and the order of its keys *)

\* the sequences that hold each element of a set once
Orderings(S) ==
    {q \in [1..Cardinality(S) -> S] : \A i, j \in DOMAIN q : q[i] = q[j] => i = j}

\* what the kwargs of a factory mapping hold
FactoryKwargs == InnerMaps \cup {EnumMap, FactoryMap(EmptyDict)}

\* the entries beside factory_function and kwargs: none, a factory_enum, a token
FactoryExtras ==
    {{}, {<<FACTORY_ENUM, PyStr(<<"m", ":", "E", ":", "X">>)>>}, {<<"k", ParamRef(<<"x">>)>>}}

\* the mappings with the factory_function key, in every order of their keys
FactoryMappings ==
    UNION {{PyDict(q) : q \in Orderings({<<FACTORY_FUNCTION, PyStr(<<"m", ":", "J">>)>>,
                                         <<"kwargs", m>>} \cup e)} :
             m \in FactoryKwargs, e \in FactoryExtras}

\* a builder with or without the parameter x, and a factory mapping
InitFactory ==
    /\ parameters \in {<<>>, <<<<<<"x">>, NewParameter(<<"x">>)>>>>}
    /\ property_files = <<>>
    /\ steps = <<>>
    /\ pipeline = PyNone
    /\ role_arn = PyNone
    /\ sagemaker_session = PyNone
    /\ security_group_ids = PyList(<<>>)
    /\ subnets = PyList(<<>>)
    /\ service_calls = {}
    /\ calls = 0
    /\ config = PyNone
    /\ NoHistory
    /\ input \in {[op |-> "_replace_step_arguments", arguments |-> T] :
                    T \in FactoryMappings}
    /\ output = Pending

NextFactory == ReplaceStepArguments

SpecFactory == InitFactory /\ [][NextFactory]_vars

\* the factory_function entry first, the other entries in their order
FactoryFirst(items) ==
    <<<<FACTORY_FUNCTION, DictGet(items, FACTORY_FUNCTION)>>>>
    \o SelectSeq(items, LAMBDA kv : kv[1] # FACTORY_FUNCTION)

\* C23: the result for a mapping with the factory_function key is the result of
\* the constructor call that _replace_factory_function makes on the mapping as
\* given, with no entry resolved or overwritten before it, whatever the order
\* of the keys of the mapping.
C23_FactoryFirst ==
    (input.op = "_replace_step_arguments" /\ output # Pending
        /\ DictHas(input.arguments.v, FACTORY_FUNCTION)) =>
        output = _replace_step_arguments(PyDict(FactoryFirst(input.arguments.v)),
                                         parameters, property_files, steps)


----------------------------------------------------------------------------
(* sagerender/builder/pipeline.py: what add_step has done when validation raises *)

\* a model step configuration with the kwargs of its model and both, one or
\* none of its two options
ModelWith(model_kwargs, create, register) ==
    PyDict(<<<<"model_kwargs", model_kwargs>>,
             <<"create_model_kwargs", create>>,
             <<"register_model_kwargs", register>>>>)

\* configurations that break the group of the model step (both options, no
\* option), plain, with a factory mapping among the kwargs and with branch
\* names; one that keeps the group, and a fail step
GroupConfigs ==
    {FailConfig(PyStr(<<"m">>)),
     ModelWith(EmptyDict, EmptyDict, PyNone),
     ModelWith(EmptyDict, EmptyDict, EmptyDict),
     ModelWith(EmptyDict, PyNone, PyNone),
     ModelWith(Under("k", FactoryMap(EmptyDict)), EmptyDict, EmptyDict),
     ModelWith(Under("k", FactoryMap(EmptyDict)), EmptyDict, PyNone),
     PyDict(Append(ModelWith(EmptyDict, EmptyDict, EmptyDict).v,
                   <<"if_steps", PyList(<<PyStr(<<"a">>)>>)>>))}

NextGroup ==
    \E n \in {<<"a">>, <<"s">>}, k \in GroupConfigs : AddStep(n, k, "ok")

SpecGroup == Init /\ [][NextGroup]_vars

\* the value holds an object that a constructor call made
RECURSIVE HoldsInstance(_)
HoldsInstance(value) ==
    CASE value.t = "instance" -> TRUE
      [] value.t = "dict" -> \E i \in DOMAIN value.v : HoldsInstance(value.v[i][2])
      [] value.t = "list" -> \E i \in DOMAIN value.v : HoldsInstance(value.v[i])
      [] OTHER -> FALSE

\* the configuration is of a step model with a group of two options and does
\* not give exactly one of them
BreaksGroup(kwargs) ==
    /\ ~Raised(get_discriminator_value(kwargs))
    /\ ExclusiveOptions(TaggedModel(get_discriminator_value(kwargs).v)) # <<>>
    /\ Cardinality(NonNullOptions(kwargs)) # 1

\* C24: when add_step raises the validation error of a configuration that
\* breaks a group of mutually exclusive options, the resolution of the
\* configuration has constructed no object and the step table is as it was
\* before the call.
C24_NothingConstructed ==
    [][(IsAddStep /\ BreaksGroup(input'.kwargs) /\ output' = Raise("ValidationError"))
         => /\ ~HoldsInstance(_replace_step_arguments(input'.kwargs, parameters,
                                                      property_files, steps))
            /\ steps' = steps]_vars


----------------------------------------------------------------------------
(* sagerender/builder/pipeline.py: what resolution does to the tables *)

\* the token whose text for eval() is
\*   self.steps["<first>"] if self.steps.pop("<popped>") else self.steps["<first>"].properties.y
ConditionalToken(first, popped) ==
    first \o IF_POP \o popped \o ELSE_STEPS \o first \o PROPERTIES_IDENTIFIER \o <<"y">>

FrameNames == {<<"a">>, <<"b">>}

\* a literal, references to a parameter, a property file and a step
PlainTokens ==
    {<<"m">>, PARAMETER_PREFIX \o <<"x">>, PROPERTY_FILE_PREFIX \o <<"x">>}
    \cup {n \o PROPERTIES_IDENTIFIER \o <<"y">> : n \in FrameNames}

FrameTokens ==
    PlainTokens \cup {ConditionalToken(f, p) : f \in FrameNames, p \in FrameNames}

\* mappings without a factory key, their values literals, tokens and mappings
FrameMappings ==
    {PyDict(<<<<"j", PyStr(v)>>, <<"k", w>>>>) :
        v \in PlainTokens,
        w \in {PyInt(1), Under("k", PyStr(<<"a">> \o PROPERTIES_IDENTIFIER \o <<"y">>)),
               PyList(<<ParamRef(<<"x">>)>>)}}

\* the step tables over the names, in each order
\* a table of fail steps of the names, in their order
TableOf(names) == [i \in DOMAIN names |-> <<names[i], FailStepNamed(names[i])>>]

FrameTables ==
    {TableOf(names) : names \in {<<>>, <<<<"a">>>>, <<<<"b">>>>, <<<<"a">>, <<"b">>>>,
                                 <<<<"b">>, <<"a">>>>}}

\* a builder that holds the parameter and the property file x or not, some of
\* the steps, and a token or a mapping to resolve
InitFrame ==
    /\ parameters \in {<<>>, <<<<<<"x">>, NewParameter(<<"x">>)>>>>}
    /\ property_files \in {<<>>, <<<<<<"x">>, NewPropertyFile(<<"x">>)>>>>}
    /\ steps \in FrameTables
    /\ pipeline = PyNone
    /\ role_arn = PyNone
    /\ sagemaker_session = PyNone
    /\ security_group_ids = PyList(<<>>)
    /\ subnets = PyList(<<>>)
    /\ service_calls = {}
    /\ calls = 0
    /\ config = PyNone
    /\ NoHistory
    /\ input \in {[op |-> "_replace_argument", argument |-> PyStr(t)] : t \in FrameTokens}
                 \cup {[op |-> "_replace_step_arguments", arguments |-> T] :
                         T \in FrameMappings}
    /\ output = Pending

NextFrame ==
    \/ ReplaceArgument
    \/ ReplaceStepArguments

SpecFrame == InitFrame /\ [][NextFrame]_vars

\* C25: a call of _replace_argument or _replace_step_arguments leaves the
\* parameters, the property files and the steps of the builder as they were,
\* and the mapping that _replace_step_arguments returns for a mapping without
\* a factory key has the keys of that mapping, in their order.
C25_ReadOnly ==
    [][(output = Pending /\ output' # Pending) =>
          /\ UNCHANGED tables
          /\ (input.op = "_replace_step_arguments" /\ ~Raised(output')) =>
                /\ output'.t = "dict"
                /\ DictKeyList(output'.v) = DictKeyList(input.arguments.v)]_vars


----------------------------------------------------------------------------
(* sagerender/cli/run_pipeline.py: wait_for_pipeline_execution *)

EXPIRED_TOKEN_EXCEPTION == "ExpiredTokenException"

\* 'Executing'|'Stopping'|'Stopped'|'Failed'|'Succeeded'
ExecutionStatuses == {"Executing", "Stopping", "Stopped", "Failed", "Succeeded"}
TerminalStatuses == {"Stopped", "Failed", "Succeeded"}

\* what a key of last_response holds when the response has no such key
NoKey == "absent"

\* the last responses a WaiterError can carry while the execution has a
\* status: an error response of the service (expired token, throttling), the
\* description of the execution, or both; a status the code does not know
LastResponses(status) ==
    {[Error |-> e, PipelineExecutionStatus |-> st] :
        e \in {NoKey, EXPIRED_TOKEN_EXCEPTION, "ThrottlingException"},
        st \in {NoKey, status, "Unknown"}}
    \ {[Error |-> NoKey, PipelineExecutionStatus |-> NoKey]}

\* the execution runs, and nothing has called the function yet
InitWait ==
    /\ BuilderInit
    /\ input = [op |-> "wait_for_pipeline_execution", status |-> "Executing",
                sagemaker_session |-> "given"]
    /\ output = Pending

\* the remote execution moves on
RemoteStep ==
    /\ input.op = "wait_for_pipeline_execution"
    /\ \E next \in ExecutionStatuses :
          /\ \/ input.status = "Executing" /\ next \in {"Stopping", "Failed", "Succeeded"}
             \/ input.status = "Stopping" /\ next = "Stopped"
          /\ input' = [input EXCEPT !.status = next]
    /\ UNCHANGED <<tables, settings, pipeline, service_calls, output, calls,
                   blueprint, tags, added, command>>

\* wait_for_pipeline_execution(execution) is called
EnterWait ==
    /\ input.op = "wait_for_pipeline_execution"
    /\ pc = "idle"
    /\ pc' = "wait"
    /\ UNCHANGED <<locator, tables, settings, pipeline, service_calls, input, output, calls,
                   blueprint, tags, added, trace>>

\* the number of the next call of execution.wait(), modulo two
NextWaitCall == IF trace = <<>> THEN "odd" ELSE IF trace[1].key = "odd" THEN "even" ELSE "odd"

\* execution.wait() returns: the waiter saw a terminal status it takes for
\* success. Nothing follows the call in the try block, so the loop goes round.
WaitReturns ==
    /\ pc = "wait"
    /\ input.status \in TerminalStatuses
    /\ pc' = "wait"
    /\ trace' = <<Call("wait", NextWaitCall, TRUE)>>
    /\ output' = PyNone
    /\ UNCHANGED <<locator, tables, settings, pipeline, service_calls, input, calls,
                   blueprint, tags, added>>

\* execution.wait() raises WaiterError; the token of a fresh session lasts
WaitRaises(last_response) ==
    /\ pc = "wait"
    /\ last_response.Error = EXPIRED_TOKEN_EXCEPTION => input.sagemaker_session = "given"
    /\ pc' = "except"
    /\ trace' = <<Call("wait", NextWaitCall, FALSE)>>
    /\ output' = [t |-> "WaiterError", last_response |-> last_response]
    /\ UNCHANGED <<locator, tables, settings, pipeline, service_calls, input, calls,
                   blueprint, tags, added>>

\* except WaiterError as error: last_response["Error"]["Code"] is read first
\* (KeyError without the key), then last_response["PipelineExecutionStatus"]
HandleWaiterError ==
    /\ pc = "except"
    /\ IF output.last_response.Error = NoKey
       THEN pc' = "raised" /\ output' = Raise("KeyError") /\ UNCHANGED input
       ELSE IF output.last_response.Error = EXPIRED_TOKEN_EXCEPTION
       THEN /\ input' = [input EXCEPT !.sagemaker_session = "fresh"]
            /\ pc' = "wait" /\ output' = PyNone
       ELSE /\ UNCHANGED input
            /\ IF output.last_response.PipelineExecutionStatus = NoKey
               THEN pc' = "raised" /\ output' = Raise("KeyError")
               ELSE IF output.last_response.PipelineExecutionStatus
                          \in {"Executing", "Stopping"}
               THEN pc' = "wait" /\ output' = PyNone
               ELSE IF output.last_response.PipelineExecutionStatus
                          \in {"Succeeded", "Stopped"}
               THEN pc' = "returned" /\ output' = PyNone
               ELSE pc' = "raised" /\ output' = Raise("SagemakerPipelineException")
    /\ UNCHANGED <<locator, tables, settings, pipeline, service_calls, calls,
                   blueprint, tags, added, trace>>

\* execution.wait(), whatever its outcome
Wait ==
    \/ WaitReturns
    \/ \E r \in LastResponses(input.status) : WaitRaises(r)

NextWait ==
    \/ RemoteStep
    \/ EnterWait
    \/ Wait
    \/ HandleWaiterError

SpecWait == InitWait /\ [][NextWait]_vars

\* the function is called and, once called, goes on running
SpecWaitFair ==
    /\ SpecWait
    /\ WF_vars(EnterWait)
    /\ WF_vars(Wait)
    /\ WF_vars(HandleWaiterError)

\* C26: once the execution has a terminal status, wait_for_pipeline_execution
\* returns or raises.
C26_Terminates ==
    (input.op = "wait_for_pipeline_execution" /\ input.status \in TerminalStatuses)
        ~> (pc \in {"returned", "raised"})

\* C27: the handler of WaiterError, for a last response that holds a status:
\* an expired token installs a fresh session and waits again; Executing and
\* Stopping wait again; Succeeded and Stopped return; Failed and any other
\* status raise SagemakerPipelineException; no other exception leaves the loop,
\* with or without an Error entry in the response.
C27_Handled ==
    [][(pc = "except" /\ pc' # "except"
          /\ output.last_response.PipelineExecutionStatus # NoKey) =>
          IF output.last_response.Error = EXPIRED_TOKEN_EXCEPTION
          THEN pc' = "wait" /\ input'.sagemaker_session = "fresh"
          ELSE IF output.last_response.PipelineExecutionStatus \in {"Executing", "Stopping"}
          THEN pc' = "wait"
          ELSE IF output.last_response.PipelineExecutionStatus \in {"Succeeded", "Stopped"}
          THEN pc' = "returned"
          ELSE pc' = "raised" /\ output' = Raise("SagemakerPipelineException")]_vars

-----------------------------------------------------------------------------
(* sagerender/utilities/mixin.py: ResourceLocatorMixin *)

MaxEntryPoints == 2     \* entry points installed for the group of one locator

\* an installed entry point: its name, and what load() does
EntryPoint(name, object, loads) == [name |-> name, object |-> object, loads |-> loads]

\* two entry points of one name, one whose module cannot be imported
EntryPoints ==
    {EntryPoint(<<"e">>, PyName(<<"E">>), TRUE), EntryPoint(<<"e">>, PyName(<<"D">>), TRUE),
     EntryPoint(<<"f">>, PyName(<<"F">>), TRUE), EntryPoint(<<"f">>, PyName(<<"F">>), FALSE)}

EntryPointGroups == UNION {[1..n -> EntryPoints] : n \in 0..MaxEntryPoints}

ResourceNames == {<<"e">>, <<"f">>, <<"g">>}

InitLocator ==
    /\ BuilderFields
    /\ NoCalls
    /\ input = [op |-> "new"]
    /\ output = PyNone
    /\ \E group \in EntryPointGroups :
            locator = [entry_points |-> group, resources |-> PyNone]

\* ResourceLocatorMixin.registered_resources: AttributeError before the first
\* assignment of __resources
registered_resources(self) == self.resources.t = "dict"

\* the loop of register_resources: load() of each entry point in turn, the
\* first that raises ends the loop
RECURSIVE LoadEach(_, _, _)
LoadEach(entry_points, resources, made) ==
    IF entry_points = <<>> THEN [resources |-> resources, out |-> PyNone, calls |-> made]
    ELSE IF ~entry_points[1].loads
    THEN [resources |-> resources, out |-> Raise("ImportError"),
          calls |-> Append(made, Call("load", entry_points[1].name, FALSE))]
    ELSE LoadEach(Tail(entry_points),
                  DictSet(resources, entry_points[1].name, entry_points[1].object),
                  Append(made, Call("load", entry_points[1].name, TRUE)))

\* ResourceLocatorMixin.register_resources
register_resources(self, made) ==
    LoadEach(self.entry_points, <<>>, Append(made, Call("entry_points", <<>>, TRUE)))

\* lazy_register_resources that registers on every call
lazy_register_resources_every_call(self, made) ==
    LET done == register_resources(self, made)
    IN  [resources |-> PyDict(done.resources), out |-> done.out, calls |-> done.calls]

\* ResourceLocatorMixin.lazy_register_resources
lazy_register_resources(self, made) ==
    IF ~registered_resources(self)
    THEN LET done == register_resources(self, made)
         IN  [resources |-> PyDict(done.resources), out |-> done.out, calls |-> done.calls]
    ELSE [resources |-> self.resources, out |-> PyNone, calls |-> made]

\* self.__resources[name]
Subscript(resources, name) ==
    IF DictHas(resources.v, name) THEN DictGet(resources.v, name) ELSE Raise("KeyError")

\* ResourceLocatorMixin.get_resource
GetResource(name) ==
    /\ input' = [op |-> "get_resource", name |-> name]
    /\ locator' = [locator EXCEPT !.resources = lazy_register_resources(locator, trace).resources]
    /\ trace' = lazy_register_resources(locator, trace).calls
    /\ output' = IF Raised(lazy_register_resources(locator, trace).out)
                 THEN lazy_register_resources(locator, trace).out
                 ELSE Subscript(lazy_register_resources(locator, trace).resources, name)
    /\ UNCHANGED <<tables, settings, pipeline, service_calls, calls, blueprint, tags, added, pc>>

\* ResourceLocatorMixin.get_resource_names
GetResourceNames ==
    /\ input' = [op |-> "get_resource_names"]
    /\ locator' = [locator EXCEPT !.resources = lazy_register_resources(locator, trace).resources]
    /\ trace' = lazy_register_resources(locator, trace).calls
    /\ output' = IF Raised(lazy_register_resources(locator, trace).out)
                 THEN lazy_register_resources(locator, trace).out
                 ELSE PyList(DictKeyList(lazy_register_resources(locator, trace).resources.v))
    /\ UNCHANGED <<tables, settings, pipeline, service_calls, calls, blueprint, tags, added, pc>>

NextLocator ==
    \/ \E name \in ResourceNames : GetResource(name)
    \/ GetResourceNames

SpecLocator == InitLocator /\ [][NextLocator]_vars

\* the entry points load() has returned, the last of a name winning
RECURSIVE Loaded(_)
Loaded(made) ==
    IF made = <<>> THEN <<>>
    ELSE LET last == made[Len(made)]
             before == Loaded(SubSeq(made, 1, Len(made) - 1))
         IN  IF last.call = "load" /\ last.ok
             THEN DictSet(before, last.key,
                          locator.entry_points[Cardinality(Calls("load") \cap 1..Len(made))].object)
             ELSE before

\* load() raised in the call that just ended
LoadRaised == Raised(output) /\ output.exc = "ImportError"

-----------------------------------------------------------------------------
(* sagerender/builder/pipeline.py: add_step, the mapping the step model gets *)

\* the keys add_step fills from the builder
BuilderKeys == {"role", "sagemaker_session", "security_group_ids", "subnets"}

GivenRole == PyStr(<<"c">>)
GivenSession == PyName("Session")
GivenIds == PyList(<<PyStr(<<"h">>)>>)

MaxNamedSteps == 2      \* add_step calls made on one builder of this section

\* a configuration with what it gives for the keys add_step fills and with a
\* reference to the step a
NamedConfig(variant, name, role, session, ids, display_name) ==
    PyDict(WithOption(WithOption(WithOption(WithOption(WithOption(WithOption(
        RequiredConfig(variant).v,
        "name", name), "role", role), "sagemaker_session", session),
        "security_group_ids", ids), "subnets", ids), "display_name", display_name))

\* a fail step and a notebook job step, with and without a name of their own,
\* a role, a session and network settings, and a reference to the step a
NamedConfigs ==
    {NamedConfig(v, n, g[1], g[2], g[3], Absent) :
        v \in {"FailStepModel", "NotebookJobStepModel"},
        n \in {Absent, PyStr(<<"n">>)},
        g \in {<<Absent, Absent, Absent>>, <<GivenRole, GivenSession, GivenIds>>}}
    \cup {NamedConfig("FailStepModel", Absent, GivenRole, Absent, Absent,
                      PropertiesRef(<<"a">>, <<"x">>)),
          NamedConfig("NotebookJobStepModel", PyStr(<<"n">>), GivenRole, GivenSession,
                      GivenIds, PropertiesRef(<<"a">>, <<"x">>))}

\* the builder's settings are supplied before the first add_step; the role also
\* between two add_step calls
NextNamed ==
    \/ role_arn = PyNone /\ SetRoleArn(SuppliedRole)
    \/ sagemaker_session = PyNone /\ calls = 0 /\ SetSagemakerSession(SuppliedSession)
    \/ security_group_ids.v = <<>> /\ calls = 0 /\ AddSecurityGroupIds(SuppliedIds)
    \/ subnets.v = <<>> /\ calls = 0 /\ AddSubnets(SuppliedIds)
    \/ /\ calls < MaxNamedSteps
       /\ \E n \in {<<"a">>, <<"b">>}, k \in NamedConfigs : AddStep(n, k, "ok")

SpecNamed == Init /\ [][NextNamed]_vars

\* the value the step model is to get for a key of the resolved configuration
\* or of the builder
Expected(key, name, resolved) ==
    CASE key = "name" -> IF DictHas(resolved, "name") THEN DictGet(resolved, "name")
                         ELSE PyStr(name)
      [] key = "role" -> role_arn
      [] key = "sagemaker_session" -> sagemaker_session
      [] key = "security_group_ids" -> security_group_ids
      [] key = "subnets" -> subnets
      [] OTHER -> DictGet(resolved, key)

\* the keys a validated model holds a value for that is not a field's default
Received(m) ==
    DictKeys(m.extra) \cup
    {k \in DictKeys(m.fields) :
        \E i \in DOMAIN ModelFields(m.variant) :
            /\ ModelFields(m.variant)[i].name = k
            /\ (ModelFields(m.variant)[i].required
                   \/ DictGet(m.fields, k) # ModelFields(m.variant)[i].default)}

\* the validated model holds the expected value for every key of the resolved
\* configuration and of the builder, and a value for no other key
Mapped(name, resolved, validated) ==
    ~Raised(validated.out) =>
        /\ ~Raised(resolved)
        /\ \A k \in DictKeys(resolved.v) \cup BuilderKeys \cup {"name"} :
               Attr(validated.out, k) = Expected(k, name, resolved.v)
        /\ Received(validated.out) \subseteq
               DictKeys(resolved.v) \cup BuilderKeys \cup {"name"}

\* the step a call returned has the expected name and is in the step table
\* under it, where a name.properties. reference finds it
Stored(name, resolved, validated, step, stepTable) ==
    ~Raised(step) =>
        /\ ~Raised(validated.out)
        /\ PyStr(step.name) = Expected("name", name, resolved.v)
        /\ DictHas(stepTable, step.name)
        /\ DictGet(stepTable, step.name) = step
        /\ ~Raised(_replace_argument(PropertiesRef(step.name, <<"x">>),
                                     parameters, property_files, stepTable))

\* C29: the step model that add_step validates holds, for every key of the
\* resolved configuration and for name, role, sagemaker_session,
\* security_group_ids and subnets, and for no other key: the resolved
\* configuration's name or else the mapping key as name, the builder's current
\* role, session, security group ids and subnets whatever the configuration
\* gave for them, and the resolved value of every other key; and the step that
\* add_step returns has that name and is in the step table under it, where a
\* name.properties. reference finds it.
C29_ModelMapping ==
    [][IsAddStep =>
         LET Holds(resolved, validated) ==
                /\ Mapped(input'.name, resolved, validated)
                /\ Stored(input'.name, resolved, validated, output', steps')
         IN Holds(_replace_step_arguments(input'.kwargs, parameters, property_files, steps),
                  add_step_validate(Self, input'.name, input'.kwargs))
      ]_vars

\* add_step("b", ...) has stored a notebook job step under the name its
\* configuration gives, with the builder's role and network settings in place
\* of the ones the configuration gave and with its reference to a resolved
C29_Witness ==
    /\ input.op = "add_step"
    /\ input.name = <<"b">>
    /\ ~Raised(output)
    /\ output.name = <<"n">>
    /\ DictHas(steps, <<"n">>) /\ ~DictHas(steps, <<"b">>)
    /\ DictGetOr(input.kwargs.v, "role", PyNone) = GivenRole
    /\ DictGetOr(input.kwargs.v, "subnets", PyNone) = GivenIds
    /\ DictHas(input.kwargs.v, "display_name")
    /\ DictHas(input.kwargs.v, "notebook_job_kwargs")
    /\ role_arn = SuppliedRole
    /\ subnets.v = SuppliedIds

-----------------------------------------------------------------------------
(* sagerender/utilities/common.py: env_vars_constructor, every variable set *)

MaxPieces == 3      \* placeholders and pieces of text in a loaded scalar

PlaceholderA == ENV_OPEN \o <<"A">> \o ENV_CLOSE
PlaceholderB == ENV_OPEN \o <<"B">> \o ENV_CLOSE

\* what a scalar is made of: the two placeholders and text
ScalarPieces == {PlaceholderA, PlaceholderB, <<"t">>, <<"-">>}

RECURSIVE Joined(_)
Joined(pieces) == IF pieces = <<>> THEN <<>> ELSE Head(pieces) \o Joined(Tail(pieces))

Scalars == {Joined(p) : p \in UNION {[1..n -> ScalarPieces] : n \in 0..MaxPieces}}

\* what a variable can hold: text, nothing, the text of a placeholder
EnvValues == {<<"v">>, <<>>, PlaceholderA, PlaceholderB}

\* the process environment with A and B set
SetEnvironments == {<<<<<<"A">>, a>>, <<<<"B">>, b>>>> : a, b \in EnvValues}

InitEnvSet ==
    /\ BuilderInit
    /\ input \in {[op |-> "env_vars_constructor", value |-> w, environ |-> e] :
                    w \in Scalars, e \in SetEnvironments}
    /\ output = Pending

SpecEnvSet == InitEnvSet /\ [][NextEnv]_vars

\* the scalar with every placeholder replaced by the value of its variable at
\* once: the text up to a placeholder, the value, and the rest treated alike
RECURSIVE Substituted(_, _)
Substituted(value, environ) ==
    LET open == Find(value, ENV_OPEN)
        after == SubSeq(value, open + Len(ENV_OPEN), Len(value))
        close == Find(after, ENV_CLOSE)
    IN IF open = 0 \/ close = 0 THEN value
       ELSE SubSeq(value, 1, open - 1)
            \o DictGet(environ, SubSeq(after, 1, close - 1))
            \o Substituted(SubSeq(after, close + Len(ENV_CLOSE), Len(after)), environ)

\* C30: for a scalar whose placeholders all name variables that are set,
\* env_vars_constructor returns the scalar with every placeholder replaced by
\* the value of its variable and the rest as it was (a scalar without a
\* placeholder as it was), and what came from a value is not replaced again.
C30_Simultaneous ==
    (/\ input.op = "env_vars_constructor"
     /\ output # Pending
     /\ \A i \in DOMAIN findall(input.value) :
            DictHas(input.environ, findall(input.value)[i]))
        => output.v = Substituted(input.value, input.environ)

====
